---- MODULE Spec2Model ----
(***************************************************************************)
(* Hassarr: a Home Assistant integration that requests movies / TV shows   *)
(* through Overseerr or a direct Radarr/Sonarr pair.                       *)
(*                                                                         *)
(* The module models five parts of the repository, each with its own       *)
(* specification over its own group of variables (the other groups stay    *)
(* at their initial values):                                               *)
(*   SpecRequest   _BaseClient._request            (api_common.py)         *)
(*   SpecMatch     OverseerrClient._best_match     (api_common.py)         *)
(*   SpecArr       SonarrClient.add_series, legacy handle_add_media        *)
(*   SpecLegacy    handle_add_overseerr_media      (services.py)           *)
(*   SpecSvc       the request_media service handler (__init__.py)         *)
(*                                                                         *)
(* Python values: None is modelled by the integer None (-1) in integer     *)
(* fields and by the string "None" in string fields; strings that are only *)
(* truncated are sequences of character codes.                             *)
(***************************************************************************)
EXTENDS Integers, Sequences, FiniteSets, TLC

VARIABLES
    \* ---- _BaseClient._request -------------------------------------------
    pc,          \* position of the call: "idle", "loop", "returned", "raised"
    retry,       \* the retry keyword argument
    attempt,     \* the local attempt counter
    trace,       \* outcome of every attempt made so far, in order
    sleeps,      \* the arguments of asyncio.sleep so far, in milliseconds
    result,      \* what the call returned or raised
    \* ---- OverseerrClient._best_match ------------------------------------
    bm_results,  \* the results argument (list of candidate records)
    bm_kind,     \* the media_type argument
    bm_done,     \* whether _best_match has been applied
    bm_out,      \* the value returned: <<>> for None, <<r>> for candidate r
    \* ---- SonarrClient.add_series / legacy handle_add_media --------------
    ar_pc,       \* "idle", "lookup", "post", "returned", "raised", "legacy"
    ar_args,     \* arguments of the add_series call
    ar_item,     \* items[0] of the lookup, <<>> before the lookup returns
    ar_payload,  \* the JSON payload built for POST /api/v3/series
    ar_http,     \* logical HTTP calls issued, in order
    ar_error,    \* exception raised to the caller, "" if none
    lg_call,     \* inputs of the handle_add_media invocation
    lg_seasons,  \* payload['seasons'] built by handle_add_media
    \* ---- legacy handle_add_overseerr_media ------------------------------
    now,             \* datetime.now(), in seconds
    RECENT_REQUESTS, \* _RECENT_REQUESTS: request key -> time, None if absent
    ov_configured,   \* overseerr_url and overseerr_api_key are in hass.data
    ov_calls,        \* one entry per invocation that carried a title
    ov_last,         \* what the last invocation did
    \* ---- request_media service handler (_svc_request) -------------------
    sv_backend,  \* entry.data[CONF_BACKEND], captured by the closure
    sv_entry,    \* entry.options / entry.data values the handler reads
    sv_store,    \* hass.data[DOMAIN][entry_id]: runtime selections and mode
    sv_pc,       \* position of the handler: "idle", an await, or "done"
    sv_data,     \* call.data of the invocation in progress
    sv_loc,      \* locals of the handler
    sv_out,      \* payload posted to the backend
    sv_http,     \* logical HTTP calls (_request) issued by this invocation
    sv_events,   \* events fired on the bus by this invocation
    sv_raised,   \* exception propagated to the caller, "" if none
    sv_now,      \* wall clock, in seconds (the handler never reads it)
    sv_subs,     \* submissions (POSTs) issued so far, with invocation time
    sv_count,    \* invocations started so far
    \* ---- season parsers applied to one input ----------------------------
    ps_in,       \* how the seasons argument was written
    ps_out,      \* <<>> before the call, then what each parser returned
    \* ---- _scrub_error_text applied to one message ------------------------
    sc_msg,      \* the error message and how it was put together
    sc_out,      \* <<>> before the call, then the scrubbed text
    \* ---- config entries and the request_media service -------------------
    lc_data,     \* hass.data[DOMAIN]: loaded entry id -> its runtime store
    lc_handler,  \* the registered request_media handler and what it closes over
    lc_setups,   \* async_setup_entry calls so far (numbers the stores)
    lc_call,     \* outcome of the last hassarr.request_media call
    \* ---- Overseerr select entities, per pair ("movie": Radarr server and
    \*      movie profile; "tv": Sonarr server and TV profile) --------------
    se_entry,    \* server and profile id saved in entry.options / entry.data
    se_pair,     \* both entities' _current_id and option values, and the
                 \* pair's two ids in store["ovsr_selected"]
    se_last      \* the operation that completed last

reqVars == <<pc, retry, attempt, trace, sleeps, result>>

matchVars == <<bm_results, bm_kind, bm_done, bm_out>>

arrVars == <<ar_pc, ar_args, ar_item, ar_payload, ar_http, ar_error,
             lg_call, lg_seasons>>

ovVars == <<now, RECENT_REQUESTS, ov_configured, ov_calls, ov_last>>

svcVars == <<sv_backend, sv_entry, sv_store, sv_pc, sv_data, sv_loc, sv_out,
             sv_http, sv_events, sv_raised, sv_now, sv_subs, sv_count>>

pureVars == <<ps_in, ps_out, sc_msg, sc_out>>

hassVars == <<lc_data, lc_handler, lc_setups, lc_call, se_entry, se_pair, se_last>>

vars == <<reqVars, matchVars, arrVars, ovVars, svcVars, pureVars, hassVars>>

\* Python's None in an integer-valued field.
None == -1

(***************************************************************************)
(* _BaseClient._request                                                    *)
(***************************************************************************)

\* retry=2 in the signature of _request.
DefaultRetry == 2

\* Largest retry argument explored.
MaxRetry == 2

RETRY_STATUSES == {502, 503, 504}

\* text[:300] in the error message.
BodyLimit == 300

\* HTTP statuses the upstream may answer with.
Statuses == {200, 399, 400, 404, 500, 502, 503, 504, 505}

\* Lengths of the response bodies explored (around the truncation limit).
BodyLens == {2, BodyLimit, BodyLimit + 1}

\* A response body of n characters (character codes).
Body(n) == [i \in 1..n |-> 97 + (i % 7)]

\* Python's s[:n].
Prefix(s, n) == SubSeq(s, 1, IF Len(s) <= n THEN Len(s) ELSE n)

\* asyncio.sleep(0.5 * attempt), in milliseconds.
Backoff(a) == 500 * a

RetryOnStatus_off(a, r, st) == a <= r + 1 /\ st \in RETRY_STATUSES

\* `attempt <= retry and (status in RETRY_STATUSES)`
RetryOnStatus(a, r, st) == a <= r /\ st \in RETRY_STATUSES

\* `if attempt <= retry:` in the except clause
RetryOnException(a, r) == a <= r

ErrorText_whole(text) == text

\* `text[:300]` placed in the raised error's message
ErrorText(text) == Prefix(text, BodyLimit)

NoResult == [kind |-> "none", status |-> None, text |-> <<>>, json |-> FALSE]

RequestIdle ==
    /\ pc = "idle"
    /\ retry = DefaultRetry
    /\ attempt = 0
    /\ trace = <<>>
    /\ sleeps = <<>>
    /\ result = NoResult

\* A caller invokes _request(method, path, retry=r).
RequestCall ==
    /\ pc = "idle"
    /\ \E r \in 0..MaxRetry : retry' = r
    /\ pc' = "loop"
    /\ attempt' = 0
    /\ trace' = <<>>
    /\ sleeps' = <<>>
    /\ result' = NoResult
    /\ UNCHANGED <<matchVars, arrVars, ovVars, svcVars, pureVars, hassVars>>

Resp(st, n, js) == [kind |-> "response", status |-> st, text |-> Body(n), json |-> js]

Exc(e) == [kind |-> e, status |-> None, text |-> <<>>, json |-> FALSE]

\* One iteration of `while True`: the response has status < 400 and is
\* returned (parsed JSON or raw text by Content-Type).
AttemptReturns ==
    /\ pc = "loop"
    /\ \E st \in Statuses, n \in BodyLens, js \in BOOLEAN :
        /\ st < 400
        /\ attempt' = attempt + 1
        /\ trace' = Append(trace, Resp(st, n, js))
        /\ result' = [kind |-> "return", status |-> st, text |-> Body(n), json |-> js]
        /\ pc' = "returned"
        /\ UNCHANGED <<retry, sleeps, <<matchVars, arrVars, ovVars, svcVars, pureVars, hassVars>>>>

\* One iteration: status >= 400, retryable and attempts left: sleep, continue.
AttemptRetriesStatus ==
    /\ pc = "loop"
    /\ \E st \in Statuses, n \in BodyLens :
        /\ st >= 400
        /\ RetryOnStatus(attempt + 1, retry, st)
        /\ attempt' = attempt + 1
        /\ trace' = Append(trace, Resp(st, n, FALSE))
        /\ sleeps' = Append(sleeps, Backoff(attempt + 1))
        /\ UNCHANGED <<pc, retry, result, <<matchVars, arrVars, ovVars, svcVars, pureVars, hassVars>>>>

\* One iteration: status >= 400 and not retried: raise ERR_CLS with status.
AttemptRaisesStatus ==
    /\ pc = "loop"
    /\ \E st \in Statuses, n \in BodyLens :
        /\ st >= 400
        /\ ~RetryOnStatus(attempt + 1, retry, st)
        /\ attempt' = attempt + 1
        /\ trace' = Append(trace, Resp(st, n, FALSE))
        /\ result' = [kind |-> "raise", status |-> st, text |-> ErrorText(Body(n)), json |-> FALSE]
        /\ pc' = "raised"
        /\ UNCHANGED <<retry, sleeps, <<matchVars, arrVars, ovVars, svcVars, pureVars, hassVars>>>>

\* One iteration: the transport raises asyncio.TimeoutError or ClientError
\* (connection failure, or failure while reading the body) and attempts are
\* left: sleep, continue.
AttemptRetriesTransport ==
    /\ pc = "loop"
    /\ \E e \in {"TimeoutError", "ClientError"} :
        /\ RetryOnException(attempt + 1, retry)
        /\ attempt' = attempt + 1
        /\ trace' = Append(trace, Exc(e))
        /\ sleeps' = Append(sleeps, Backoff(attempt + 1))
        /\ UNCHANGED <<pc, retry, result, <<matchVars, arrVars, ovVars, svcVars, pureVars, hassVars>>>>

\* One iteration: the transport raises and no attempt is left: raise ERR_CLS
\* (status None).
AttemptRaisesTransport ==
    /\ pc = "loop"
    /\ \E e \in {"TimeoutError", "ClientError"} :
        /\ ~RetryOnException(attempt + 1, retry)
        /\ attempt' = attempt + 1
        /\ trace' = Append(trace, Exc(e))
        /\ result' = [kind |-> "raise", status |-> None, text |-> <<>>, json |-> FALSE]
        /\ pc' = "raised"
        /\ UNCHANGED <<retry, sleeps, <<matchVars, arrVars, ovVars, svcVars, pureVars, hassVars>>>>

RequestNext ==
    \/ RequestCall
    \/ AttemptReturns
    \/ AttemptRetriesStatus
    \/ AttemptRaisesStatus
    \/ AttemptRetriesTransport
    \/ AttemptRaisesTransport

\* An attempt outcome that the claim calls transient.
Transient(o) == \/ o.kind \in {"TimeoutError", "ClientError"}
                \/ o.kind = "response" /\ o.status \in RETRY_STATUSES

AllTransient(tr) == \A i \in 1..Len(tr) : Transient(tr[i])

\* C1: with the default retry=2, while every attempt so far was transient
\* (502/503/504 or a timeout/connection error) a further attempt is made
\* only while fewer than 3 attempts have been made: the counter never
\* exceeds 3, the call is still running only after fewer than 3 transient
\* attempts, transient,transient,success returns after exactly 3 attempts,
\* and three transient attempts raise after exactly 3; status and transport
\* retries share the one counter (trace holds both kinds).
C1_RetryBound ==
    retry = DefaultRetry =>
        /\ attempt <= DefaultRetry + 1
        /\ Len(trace) = attempt
        /\ (pc = "loop" => attempt < DefaultRetry + 1 /\ AllTransient(trace))
        /\ (attempt >= 1 => AllTransient(SubSeq(trace, 1, attempt - 1)))
        /\ (attempt = DefaultRetry + 1 /\ AllTransient(trace)
                => pc = "raised")
        /\ (attempt = DefaultRetry + 1 /\ ~Transient(trace[attempt])
               /\ trace[attempt].status < 400
                => pc = "returned" /\ result.status = trace[attempt].status)
        /\ (pc \in {"returned", "raised"} /\ AllTransient(trace)
                => attempt = DefaultRetry + 1)

\* Witness of C1: a status retry and a transport retry followed by a success
\* on the third attempt.
C1_Witness ==
    /\ retry = DefaultRetry
    /\ pc = "returned"
    /\ attempt = 3
    /\ trace[1].kind = "response" /\ trace[1].status = 503
    /\ trace[2].kind = "TimeoutError"
    /\ trace[3].status = 200

\* C2: a response with status >= 400 outside {502,503,504} ends the call on
\* the attempt it arrives on: it is the last attempt, no backoff sleep follows
\* it, and the raised error carries that status and the first (at most) 300
\* characters of the body.
C2_NonTransientFailsAtOnce ==
    \A i \in 1..Len(trace) :
        (trace[i].kind = "response" /\ trace[i].status >= 400
            /\ trace[i].status \notin RETRY_STATUSES)
        => /\ i = Len(trace)
           /\ attempt = i
           /\ pc = "raised"
           /\ Len(sleeps) = i - 1
           /\ result.kind = "raise"
           /\ result.status = trace[i].status
           /\ Len(result.text) <= BodyLimit
           /\ result.text = SubSeq(trace[i].text, 1, Len(result.text))
           /\ (Len(trace[i].text) <= BodyLimit => result.text = trace[i].text)
           /\ (Len(trace[i].text) > BodyLimit => Len(result.text) = BodyLimit)

\* Witness of C2: a 404 with a body longer than 300 characters arrives on the
\* second attempt, after one retried attempt.
C2_Witness ==
    /\ pc = "raised"
    /\ attempt = 2
    /\ trace[2].kind = "response" /\ trace[2].status = 404
    /\ Len(trace[2].text) = BodyLimit + 1
    /\ Len(sleeps) = 1

(***************************************************************************)
(* OverseerrClient._best_match                                             *)
(***************************************************************************)

\* Longest candidate list explored.
MaxCands == 3

\* Search results as returned by GET /api/v1/search, over the (mediaType,
\* media_type) pairs and (popularity, voteAverage, vote_average) triples
\* explored; "None" / None is an absent key.
Candidates ==
    LET TagPairs == { <<"None", "None">>, <<"movie", "None">>, <<"None", "tv">>,
                      <<"tv", "movie">> }
        ScoreTriples == { <<None, None, None>>, <<0, 3, None>>, <<2, None, None>>,
                          <<None, 2, None>>, <<None, None, 4>>, <<5, 1, None>> }
    IN { [mediaType |-> t[1], media_type |-> t[2],
          popularity |-> s[1], voteAverage |-> s[2], vote_average |-> s[3]] :
         t \in TagPairs, s \in ScoreTriples }

SeqsUpTo(S, n) == UNION { [1..k -> S] : k \in 0..n }

\* The media kinds _norm_type returns.
Kinds == {"movie", "tv"}

\* Python truthiness of an optional string / an optional number.
TruthyStr(s) == s \notin {"None", ""}

TruthyNum(x) == x \notin {None, 0}

\* `a or b` on optional numbers.
OrNum(a, b) == IF TruthyNum(a) THEN a ELSE b

\* str.lower() on the media kinds a caller may pass.
Lower(s) ==
    CASE s \in {"Movie", "MOVIE"} -> "movie"
      [] s \in {"Tv", "TV"} -> "tv"
      [] s \in {"Show", "SHOW"} -> "show"
      [] OTHER -> s

\* `r.get("mediaType") or r.get("media_type")`
Tag(r) == IF TruthyStr(r.mediaType) THEN r.mediaType ELSE r.media_type

\* `typed = [r for r in results if (...) == mt]`
Typed(results, mt) == SelectSeq(results, LAMBDA r : Tag(r) = mt)

Pool_unfiltered(results, mt) == results

Pool_typedonly(results, mt) == Typed(results, mt)

\* `pool = typed or results`
Pool(results, mt) ==
    IF Typed(results, mt) # <<>> THEN Typed(results, mt) ELSE results

\* `score`: popularity or voteAverage or vote_average or 0.0
Score(r) ==
    LET s == OrNum(OrNum(OrNum(r.popularity, r.voteAverage), r.vote_average), 0)
    IN s

\* Index picked by max(pool, key=score): the first element of maximal score.
FirstMax(pool) ==
    CHOOSE i \in 1..Len(pool) :
        /\ \A j \in 1..Len(pool) : Score(pool[j]) <= Score(pool[i])
        /\ \A j \in 1..(i - 1) : Score(pool[j]) < Score(pool[i])

\* _best_match(results, media_type): <<>> stands for None.
BestMatch(results, media_type) ==
    LET mt == Lower(media_type)
        pool == Pool(results, mt)
    IN IF pool = <<>> THEN <<>> ELSE << pool[FirstMax(pool)] >>

MatchIdle ==
    /\ bm_results = <<>>
    /\ bm_kind = "movie"
    /\ bm_done = FALSE
    /\ bm_out = <<>>

\* _best_match is applied to the inputs.
BestMatchCall ==
    /\ ~bm_done
    /\ bm_out' = BestMatch(bm_results, bm_kind)
    /\ bm_done' = TRUE
    /\ UNCHANGED <<bm_results, bm_kind, <<reqVars, arrVars, ovVars, svcVars, pureVars, hassVars>>>>

MatchNext == BestMatchCall

HasTyped(results, kind) == \E i \in 1..Len(results) : Tag(results[i]) = kind

\* C9: if at least one candidate's type tag equals the requested kind, the
\* candidate _best_match returns has that type tag.
C9_NeverWrongType ==
    (bm_done /\ HasTyped(bm_results, bm_kind))
        => (bm_out # <<>> /\ Tag(bm_out[1]) = bm_kind)

\* Witness of C9: a correctly typed candidate exists, and a candidate of
\* another type has a strictly higher score than every typed one.
C9_Witness ==
    /\ bm_done
    /\ HasTyped(bm_results, bm_kind)
    /\ \E i \in 1..Len(bm_results) :
          /\ Tag(bm_results[i]) \notin {bm_kind, "None"}
          /\ \A j \in 1..Len(bm_results) :
                Tag(bm_results[j]) = bm_kind
                    => Score(bm_results[j]) < Score(bm_results[i])
    /\ Tag(bm_out[1]) = bm_kind

\* C10: when no candidate's type tag equals the requested kind and the list
\* is non-empty, the result is a member of the full list of maximal score
\* over the full list, never None; the result is None only for the empty list.
C10_FallbackToFullPool ==
    bm_done =>
        /\ (bm_out = <<>>) <=> (bm_results = <<>>)
        /\ (bm_results # <<>> /\ ~HasTyped(bm_results, bm_kind))
            => /\ bm_out # <<>>
               /\ \E i \in 1..Len(bm_results) : bm_results[i] = bm_out[1]
               /\ \A j \in 1..Len(bm_results) :
                     Score(bm_results[j]) <= Score(bm_out[1])

\* Witness of C10: a non-empty list without any candidate of the requested
\* kind, one of them carrying no type tag at all, yields a candidate.
C10_Witness ==
    /\ bm_done
    /\ bm_results # <<>>
    /\ ~HasTyped(bm_results, bm_kind)
    /\ \E i \in 1..Len(bm_results) : Tag(bm_results[i]) = "None"
    /\ \E i \in 1..Len(bm_results) : Tag(bm_results[i]) \notin {"None", bm_kind}
    /\ bm_out # <<>>

\* C11: the candidate _best_match returns has the maximum score in the pool,
\* where a candidate's score is its popularity if that field is present, else
\* its voteAverage if present, else 0; among the candidates of maximum score
\* the earliest in pool order is returned.
C11_MaxScoreFirst ==
    (bm_done /\ bm_results # <<>>) =>
        LET pool == Pool(bm_results, Lower(bm_kind))
            StatedScore(r) == IF r.popularity # None THEN r.popularity
                              ELSE IF r.voteAverage # None THEN r.voteAverage
                              ELSE 0
            first == CHOOSE i \in 1..Len(pool) :
                        /\ \A j \in 1..Len(pool) :
                              StatedScore(pool[j]) <= StatedScore(pool[i])
                        /\ \A j \in 1..(i - 1) :
                              StatedScore(pool[j]) < StatedScore(pool[i])
        IN bm_out = << pool[first] >>


(***************************************************************************)
(* Python strings that are parsed are sequences of one-character strings.  *)
(***************************************************************************)

Digits == {"0", "1", "2", "3", "4", "5", "6", "7", "8", "9"}

DigitVal(c) ==
    CASE c = "0" -> 0 [] c = "1" -> 1 [] c = "2" -> 2 [] c = "3" -> 3
      [] c = "4" -> 4 [] c = "5" -> 5 [] c = "6" -> 6 [] c = "7" -> 7
      [] c = "8" -> 8 [] c = "9" -> 9

\* A comparison that keeps the letter case.
LowerStr_keepcase(s) == s

\* str.lower(), over the letters that occur in the strings explored.
LowerStr(s) ==
    LET LowerChar(c) ==
            CASE c = "A" -> "a" [] c = "L" -> "l" [] c = "S" -> "s"
              [] c = "E" -> "e" [] c = "O" -> "o" [] c = "N" -> "n"
              [] c = "T" -> "t" [] c = "M" -> "m" [] c = "D" -> "d"
              [] c = "B" -> "b" [] c = "U" -> "u" [] c = "H" -> "h"
              [] c = "P" -> "p"
              [] OTHER -> c
    IN [i \in 1..Len(s) |-> LowerChar(s[i])]

\* str.strip(): the stretch from the first to the last non-blank character.
Strip(s) ==
    LET keep == { i \in 1..Len(s) : s[i] # " " }
    IN IF keep = {} THEN <<>>
       ELSE SubSeq(s, CHOOSE i \in keep : \A j \in keep : i <= j,
                      CHOOSE i \in keep : \A j \in keep : j <= i)

\* The literal "all".
StrAll == <<"a", "l", "l">>

\* Python values that are None, a str or a list of ints.
PyNone == [type |-> "none", s |-> <<>>, l |-> <<>>]

PyStr(cs) == [type |-> "str", s |-> cs, l |-> <<>>]

PyList(xs) == [type |-> "list", s |-> <<>>, l |-> xs]

\* Python truthiness of such a value.
TruthyPy(v) ==
    \/ v.type = "str" /\ v.s # <<>>
    \/ v.type = "list" /\ v.l # <<>>

Range(f) == { f[i] : i \in DOMAIN f }

(***************************************************************************)
(* SonarrClient.add_series                                                 *)
(***************************************************************************)

\* Largest season number of a looked-up series.
MaxSeason == 2

\* Largest number of seasons of a looked-up series.
MaxSeasonCount == 3

\* Answers of GET /api/v3/series/lookup: no result, one result, or two
\* results (seasons holds the seasonNumber of each entry of the "seasons"
\* array, in order).
LookupAnswers ==
    LET SeriesSet == { [title |-> "A", seasons |-> ss] :
                         ss \in SeqsUpTo(0..MaxSeason, MaxSeasonCount) }
        OtherSeries == [title |-> "B", seasons |-> <<1>>]
    IN {<<>>} \cup { <<x>> : x \in SeriesSet }
              \cup { <<x, OtherSeries>> : x \in SeriesSet }

\* The seasons arguments explored: None, spellings of "all", a digit string,
\* and lists of season numbers.
SeasonArgs ==
    {PyNone}
    \cup { PyStr(cs) : cs \in { StrAll, <<"A", "L", "L">>, <<" ", "A", "l", "l", " ">>,
                                <<"1", "2">>, <<"1", ",", "2">> } }
    \cup { PyList(xs) : xs \in SeqsUpTo(0..MaxSeason, 2) }

\* `isinstance(seasons, str) and seasons.strip().lower() == "all"`
IsAllArg(seasons) ==
    seasons.type = "str" /\ LowerStr(Strip(seasons.s)) = StrAll

\* `{int(x) for x in seasons}` raises ValueError on a non-numeric character.
SeasonArgRaises(seasons) ==
    /\ ~IsAllArg(seasons)
    /\ seasons.type = "str"
    /\ \E i \in 1..Len(seasons.s) : seasons.s[i] \notin Digits

\* monitored_set: None, the set of every season number of the series for
\* "all", or the set of the requested numbers.
MonitoredSet(s, seasons) ==
    IF IsAllArg(seasons) THEN [none |-> FALSE, set |-> Range(s.seasons)]
    ELSE IF ~TruthyPy(seasons) THEN [none |-> TRUE, set |-> {}]
    ELSE IF seasons.type = "str"
         THEN [none |-> FALSE, set |-> { DigitVal(seasons.s[i]) : i \in 1..Len(seasons.s) }]
         ELSE [none |-> FALSE, set |-> Range(seasons.l)]

\* The "seasons" array of the payload.
SeasonFlags(s, seasons) ==
    LET ms == MonitoredSet(s, seasons)
    IN [i \in 1..Len(s.seasons) |->
           [seasonNumber |-> s.seasons[i],
            monitored |-> ms.none \/ s.seasons[i] \in ms.set]]

\* The payload of POST /api/v3/series; keys holds the keys that survive
\* `{k: v for k, v in payload.items() if v is not None}` among the optional
\* ones.
SeriesPayload(s, args) ==
    [title |-> s.title,
     seasons |-> SeasonFlags(s, args.seasons),
     rootFolderPath |-> args.root,
     qualityProfileId |-> args.quality_profile_id,
     languageProfileId |-> IF TruthyNum(args.language_profile_id)
                           THEN args.language_profile_id ELSE None,
     hasLanguageProfileId |-> TruthyNum(args.language_profile_id),
     monitored |-> TRUE,
     addOptions |-> "searchForMissingEpisodes",
     tmdbId |-> args.tmdb_id]

NoPayload == [title |-> "", seasons |-> <<>>, rootFolderPath |-> "",
              qualityProfileId |-> None, languageProfileId |-> None,
              hasLanguageProfileId |-> FALSE, monitored |-> FALSE,
              addOptions |-> "", tmdbId |-> None]

NoLegacyCall == [called |-> FALSE, media_type |-> "", seasons |-> PyNone,
                 has_seasons |-> FALSE, default_season |-> "", media |-> <<>>]

ArrIdle ==
    /\ ar_pc = "idle"
    /\ ar_args = [tmdb_id |-> None, root |-> "", quality_profile_id |-> None,
                  language_profile_id |-> None, seasons |-> PyNone]
    /\ ar_item = <<>>
    /\ ar_payload = NoPayload
    /\ ar_http = <<>>
    /\ ar_error = ""
    /\ lg_call = NoLegacyCall
    /\ lg_seasons = <<>>

\* add_series(tmdb_id, root, quality_profile_id, language_profile_id, seasons)
\* is called and awaits the lookup.
SeriesCall ==
    /\ ar_pc = "idle"
    /\ \E sa \in SeasonArgs, lp \in {None, 0, 1} :
          ar_args' = [tmdb_id |-> 1396, root |-> "/tv", quality_profile_id |-> 4,
                      language_profile_id |-> lp, seasons |-> sa]
    /\ ar_http' = Append(ar_http, <<"GET", "/api/v3/series/lookup">>)
    /\ ar_pc' = "lookup"
    /\ UNCHANGED <<ar_item, ar_payload, ar_error, lg_call, lg_seasons, <<reqVars, matchVars, ovVars, svcVars, pureVars, hassVars>>>>

\* The lookup raises ArrError out of _request.
SeriesLookupFails ==
    /\ ar_pc = "lookup"
    /\ ar_error' = "ArrError(_request)"
    /\ ar_pc' = "raised"
    /\ UNCHANGED <<ar_args, ar_item, ar_payload, ar_http, lg_call, lg_seasons, <<reqVars, matchVars, ovVars, svcVars, pureVars, hassVars>>>>

\* The lookup returns no items: ArrError, no POST.
SeriesLookupEmpty ==
    /\ ar_pc = "lookup"
    /\ ar_error' = "ArrError"
    /\ ar_pc' = "raised"
    /\ UNCHANGED <<ar_args, ar_item, ar_payload, ar_http, lg_call, lg_seasons, <<reqVars, matchVars, ovVars, svcVars, pureVars, hassVars>>>>

\* The lookup returns items; the seasons argument cannot be converted.
SeriesBadSeasons ==
    /\ ar_pc = "lookup"
    /\ SeasonArgRaises(ar_args.seasons)
    /\ \E items \in LookupAnswers :
          /\ items # <<>>
          /\ ar_item' = <<items[1]>>
    /\ ar_error' = "ValueError"
    /\ ar_pc' = "raised"
    /\ UNCHANGED <<ar_args, ar_payload, ar_http, lg_call, lg_seasons, <<reqVars, matchVars, ovVars, svcVars, pureVars, hassVars>>>>

\* The lookup returns items: the payload is built from items[0] and posted.
SeriesLookupReturns ==
    /\ ar_pc = "lookup"
    /\ ~SeasonArgRaises(ar_args.seasons)
    /\ \E items \in LookupAnswers :
          /\ items # <<>>
          /\ ar_item' = <<items[1]>>
          /\ ar_payload' = SeriesPayload(items[1], ar_args)
    /\ ar_http' = Append(ar_http, <<"POST", "/api/v3/series">>)
    /\ ar_pc' = "post"
    /\ UNCHANGED <<ar_args, ar_error, lg_call, lg_seasons, <<reqVars, matchVars, ovVars, svcVars, pureVars, hassVars>>>>

\* The POST returns.
SeriesPostReturns ==
    /\ ar_pc = "post"
    /\ ar_pc' = "returned"
    /\ UNCHANGED <<ar_args, ar_item, ar_payload, ar_http, ar_error, lg_call, lg_seasons, <<reqVars, matchVars, ovVars, svcVars, pureVars, hassVars>>>>

\* The POST raises ArrError out of _request.
SeriesPostFails ==
    /\ ar_pc = "post"
    /\ ar_error' = "ArrError(_request)"
    /\ ar_pc' = "raised"
    /\ UNCHANGED <<ar_args, ar_item, ar_payload, ar_http, lg_call, lg_seasons, <<reqVars, matchVars, ovVars, svcVars, pureVars, hassVars>>>>

(***************************************************************************)
(* Legacy handle_add_media (services.py): the season loop for Sonarr       *)
(***************************************************************************)

RECURSIVE ScanNumbers(_, _, _, _)
\* re.findall(r'\d+', s) converted with int(): the maximal digit runs of
\* s[i..], given the value cur of the run in progress (inrun).
ScanNumbers(s, i, cur, inrun) ==
    IF i > Len(s) THEN (IF inrun THEN <<cur>> ELSE <<>>)
    ELSE IF s[i] \in Digits
         THEN ScanNumbers(s, i + 1, (IF inrun THEN cur * 10 ELSE 0) + DigitVal(s[i]), TRUE)
         ELSE (IF inrun THEN <<cur>> ELSE <<>>) \o ScanNumbers(s, i + 1, 0, FALSE)

\* parse_seasons_input(seasons_input): "all" or a list of integers.
ParseSeasonsInput(v) ==
    IF v.type = "list" THEN v
    ELSE IF v.type = "str" /\ LowerStr(v.s) = StrAll THEN PyStr(StrAll)
    ELSE IF v.type = "str" /\ ScanNumbers(v.s, 1, 0, FALSE) # <<>>
         THEN PyList(ScanNumbers(v.s, 1, 0, FALSE))
    ELSE PyStr(StrAll)

\* The values of config_data["default_season"].
StrAllCap == <<"A", "l", "l">>

StrSeason1 == <<"S", "e", "a", "s", "o", "n", " ", "1">>

\* seasons_array of handle_add_media; LegacyMonitored is is_monitored of
\* one season in its loop.
LegacySeasonsArray(media, raw_seasons_input, default_season) ==
    LET parsed_seasons == ParseSeasonsInput(raw_seasons_input)
        LegacyMonitored(season_number, parsed, default) ==
            IF parsed = PyStr(StrAll) THEN season_number # 0
            ELSE IF default = StrSeason1 /\ parsed = PyStr(default)
                 THEN season_number = 1
            ELSE IF parsed.type = "list" THEN season_number \in Range(parsed.l)
            ELSE FALSE
    IN [i \in 1..Len(media.seasons) |->
          [seasonNumber |-> media.seasons[i],
           monitored |-> LegacyMonitored(media.seasons[i], parsed_seasons, default_season)]]

\* handle_add_media(hass, call, "series", "sonarr") returns early: the title
\* or the URL / API key is missing (no HTTP call), the lookup finds nothing,
\* or no root folder is found.
HandleAddMediaReturnsEarly ==
    /\ ar_pc = "idle"
    /\ \E why \in {"no title", "no config", "lookup failed", "no results", "no root"} :
          /\ lg_call' = [NoLegacyCall EXCEPT !.called = TRUE, !.media_type = why]
          /\ ar_http' =
               IF why \in {"no title", "no config"} THEN ar_http
               ELSE IF why \in {"lookup failed", "no results"}
                    THEN Append(ar_http, <<"GET", "api/v3/series/lookup">>)
               ELSE ar_http \o << <<"GET", "api/v3/series/lookup">>,
                                  <<"GET", "api/v3/rootfolder">> >>
    /\ ar_pc' = "legacy"
    /\ UNCHANGED <<ar_args, ar_item, ar_payload, ar_error, lg_seasons, <<reqVars, matchVars, ovVars, svcVars, pureVars, hassVars>>>>

\* handle_add_media(hass, call, "series", "sonarr") runs to the POST: lookup,
\* root folder, the season loop over media_list[0], then requests.post.
HandleAddMedia ==
    /\ ar_pc = "idle"
    /\ \E items \in LookupAnswers, has \in BOOLEAN,
          inp \in ({ PyStr(cs) : cs \in { StrAll, StrAllCap, <<"A", "L", "L">>,
                                         <<" ", "a", "l", "l">>, <<"1", ",", "2">>,
                                         StrSeason1, <<"x">> } }
                   \cup { PyList(xs) : xs \in SeqsUpTo(0..MaxSeason, 1) }),
          ds \in {StrAllCap, StrSeason1} :
          /\ items # <<>>
          /\ LET raw == IF has THEN inp ELSE PyStr(ds)
             IN /\ lg_call' = [called |-> TRUE, media_type |-> "series",
                               seasons |-> raw, has_seasons |-> has,
                               default_season |-> ds, media |-> <<items[1]>>]
                /\ lg_seasons' = LegacySeasonsArray(items[1], raw, ds)
    /\ ar_http' = ar_http \o << <<"GET", "api/v3/series/lookup">>,
                                <<"GET", "api/v3/rootfolder">>,
                                <<"POST", "api/v3/series">> >>
    /\ ar_pc' = "legacy"
    /\ UNCHANGED <<ar_args, ar_item, ar_payload, ar_error, <<reqVars, matchVars, ovVars, svcVars, pureVars, hassVars>>>>

ArrNext ==
    \/ SeriesCall
    \/ SeriesLookupFails
    \/ SeriesLookupEmpty
    \/ SeriesBadSeasons
    \/ SeriesLookupReturns
    \/ SeriesPostReturns
    \/ SeriesPostFails
    \/ HandleAddMediaReturnsEarly
    \/ HandleAddMedia

\* C8: with seasons=All, the seasons array posted to Sonarr marks a season
\* monitored exactly when its seasonNumber is not 0, both for
\* SonarrClient.add_series called with "all" and for the legacy
\* handle_add_media.
C8_AllExceptSpecials ==
    /\ (ar_pc \in {"post", "returned"} /\ IsAllArg(ar_args.seasons))
        => \A i \in 1..Len(ar_payload.seasons) :
              ar_payload.seasons[i].monitored
                  <=> (ar_payload.seasons[i].seasonNumber # 0)
    /\ (ar_pc = "legacy" /\ lg_call.media_type = "series"
            /\ ParseSeasonsInput(lg_call.seasons) = PyStr(StrAll))
        => \A i \in 1..Len(lg_seasons) :
              lg_seasons[i].monitored <=> (lg_seasons[i].seasonNumber # 0)

\* The legacy half of C8 alone.
C8_LegacyHalf ==
    (ar_pc = "legacy" /\ lg_call.media_type = "series"
            /\ ParseSeasonsInput(lg_call.seasons) = PyStr(StrAll))
        => /\ Len(lg_seasons) = Len(lg_call.media[1].seasons)
           /\ \A i \in 1..Len(lg_seasons) :
              lg_seasons[i].monitored <=> (lg_seasons[i].seasonNumber # 0)

\* C18: the seasons array posted by add_series has one entry per season of
\* the lookup result, in the same order; with a specific set of seasons a
\* season is monitored exactly when its number is in the set, and with no
\* seasons argument every season is monitored.
C18_SeasonFlags ==
    (ar_pc \in {"post", "returned"}) =>
        LET listed == ar_item[1].seasons
            flags == ar_payload.seasons
        IN /\ Len(flags) = Len(listed)
           /\ \A i \in 1..Len(flags) : flags[i].seasonNumber = listed[i]
           /\ ar_args.seasons.type = "list" =>
                 \A i \in 1..Len(flags) :
                    flags[i].monitored <=>
                        \E j \in 1..Len(ar_args.seasons.l) :
                            ar_args.seasons.l[j] = listed[i]
           /\ ar_args.seasons = PyNone =>
                 \A i \in 1..Len(flags) : flags[i].monitored

(***************************************************************************)
(* Legacy handle_add_overseerr_media (services.py)                         *)
(***************************************************************************)

\* Largest number of invocations (with a title) explored.
MaxCalls == 3

\* `if time_diff < 10`
DuplicateWindow == 10

\* timedelta(minutes=2), in seconds.
CleanupAge == 120

\* request_key = f"{title}:{media_type}"
RequestKeys == { <<t, m>> : t \in {"Dune"}, m \in Kinds }

IsDuplicate_wide(time_diff) == time_diff < DuplicateWindow + 2

\* `time_diff < 10` for a key that is in _RECENT_REQUESTS
IsDuplicate(time_diff) == time_diff < DuplicateWindow

\* A key seen exactly 10 seconds ago is a duplicate too.
Suppressed_inclusive(recent, key, current_time) ==
    /\ recent[key] # None
    /\ current_time - recent[key] <= DuplicateWindow

\* The duplicate check of lines 219-225.
Suppressed(recent, key, current_time) ==
    /\ recent[key] # None
    /\ IsDuplicate(current_time - recent[key])

\* The key is recorded and nothing is deleted.
RecordAndPrune_keepall(recent, key, current_time) ==
    [recent EXCEPT ![key] = current_time]

\* Lines 228-234: record the key, then delete entries older than 2 minutes.
RecordAndPrune(recent, key, current_time) ==
    LET upd == [recent EXCEPT ![key] = current_time]
        cleanup_time == current_time - CleanupAge
    IN [k \in RequestKeys |->
          IF upd[k] # None /\ upd[k] < cleanup_time THEN None ELSE upd[k]]

OvIdle ==
    /\ now = 0
    /\ RECENT_REQUESTS = [k \in RequestKeys |-> None]
    /\ ov_configured = TRUE
    /\ ov_calls = <<>>
    /\ ov_last = [outcome |-> "", gets |-> 0, posts |-> 0]

\* Time passes between invocations.
Tick ==
    /\ \E t \in {6, 9, 10, 11, 12, 21, 120, 131} : t > now /\ now' = t
    /\ UNCHANGED <<RECENT_REQUESTS, ov_configured, ov_calls, ov_last, <<reqVars, matchVars, arrVars, svcVars, pureVars, hassVars>>>>

OvCall(key, accepted, found, posts, outcome) ==
    [key |-> key, t |-> now, accepted |-> accepted, found |-> found, posts |-> posts,
     outcome |-> outcome]

\* The call carries no title: return before anything else.
OvNoTitle ==
    /\ ov_last' = [outcome |-> "no title", gets |-> 0, posts |-> 0]
    /\ UNCHANGED <<now, RECENT_REQUESTS, ov_configured, ov_calls, <<reqVars, matchVars, arrVars, svcVars, pureVars, hassVars>>>>

\* The key was seen less than 10 seconds ago: return, nothing recorded.
\* (found is what a search would have answered.)
OvDuplicate ==
    /\ Len(ov_calls) < MaxCalls
    /\ \E key \in RequestKeys, found \in BOOLEAN :
          /\ Suppressed(RECENT_REQUESTS, key, now)
          /\ ov_calls' = Append(ov_calls, OvCall(key, FALSE, found, 0, "duplicate"))
    /\ ov_last' = [outcome |-> "duplicate", gets |-> 0, posts |-> 0]
    /\ UNCHANGED <<now, RECENT_REQUESTS, ov_configured, <<reqVars, matchVars, arrVars, svcVars, pureVars, hassVars>>>>

\* The configuration is checked before the key is recorded.
OvNoConfig_unrecorded ==
    /\ Len(ov_calls) < MaxCalls
    /\ ~ov_configured
    /\ \E key \in RequestKeys, found \in BOOLEAN :
          /\ ~Suppressed(RECENT_REQUESTS, key, now)
          /\ ov_calls' = Append(ov_calls, OvCall(key, TRUE, found, 0, "no config"))
    /\ ov_last' = [outcome |-> "no config", gets |-> 0, posts |-> 0]
    /\ UNCHANGED <<now, RECENT_REQUESTS, ov_configured, <<reqVars, matchVars, arrVars, svcVars, pureVars, hassVars>>>>

\* The key is recorded and the map pruned; URL or API key missing: return.
OvNoConfig ==
    /\ Len(ov_calls) < MaxCalls
    /\ ~ov_configured
    /\ \E key \in RequestKeys, found \in BOOLEAN :
          /\ ~Suppressed(RECENT_REQUESTS, key, now)
          /\ RECENT_REQUESTS' = RecordAndPrune(RECENT_REQUESTS, key, now)
          /\ ov_calls' = Append(ov_calls, OvCall(key, TRUE, found, 0, "no config"))
    /\ ov_last' = [outcome |-> "no config", gets |-> 0, posts |-> 0]
    /\ UNCHANGED <<now, ov_configured, <<reqVars, matchVars, arrVars, svcVars, pureVars, hassVars>>>>

\* Recorded and pruned; both searches (https, then http) give no results.
OvNoResults ==
    /\ Len(ov_calls) < MaxCalls
    /\ ov_configured
    /\ \E key \in RequestKeys :
          /\ ~Suppressed(RECENT_REQUESTS, key, now)
          /\ RECENT_REQUESTS' = RecordAndPrune(RECENT_REQUESTS, key, now)
          /\ ov_calls' = Append(ov_calls, OvCall(key, TRUE, FALSE, 0, "no results"))
    /\ ov_last' = [outcome |-> "no results", gets |-> 2, posts |-> 0]
    /\ UNCHANGED <<now, ov_configured, <<reqVars, matchVars, arrVars, svcVars, pureVars, hassVars>>>>

\* Recorded and pruned; the first or the second search gives results and
\* POST /api/v1/request is issued once (answered 201 or not).
OvPosts ==
    /\ Len(ov_calls) < MaxCalls
    /\ ov_configured
    /\ \E key \in RequestKeys, first \in BOOLEAN, created \in BOOLEAN :
          /\ ~Suppressed(RECENT_REQUESTS, key, now)
          /\ RECENT_REQUESTS' = RecordAndPrune(RECENT_REQUESTS, key, now)
          /\ ov_calls' = Append(ov_calls, OvCall(key, TRUE, TRUE, 1,
                                           IF created THEN "created" ELSE "failed"))
          /\ ov_last' = [outcome |-> IF created THEN "created" ELSE "failed",
                         gets |-> IF first THEN 1 ELSE 2, posts |-> 1]
    /\ UNCHANGED <<now, ov_configured, <<reqVars, matchVars, arrVars, svcVars, pureVars, hassVars>>>>

OvNext ==
    \/ Tick
    \/ OvNoTitle
    \/ OvDuplicate
    \/ OvNoConfig
    \/ OvNoResults
    \/ OvPosts

\* Calls i < j are for the same key with no call for that key in between.
Consecutive(i, j) ==
    /\ i < j
    /\ ov_calls[i].key = ov_calls[j].key
    /\ \A k \in (i + 1)..(j - 1) : ov_calls[k].key # ov_calls[i].key

\* C6: for two calls with the same title and media_type, configuration
\* present and searches returning results, with no call for that key in
\* between: if the second comes less than 10 seconds after the first, one
\* POST /api/v1/request is issued in total; if it comes 11 seconds or more
\* after it, two are.
C6_DuplicateSuppression ==
    \A i, j \in 1..Len(ov_calls) :
        (Consecutive(i, j) /\ ov_configured /\ ov_calls[i].accepted
            /\ ov_calls[i].found /\ ov_calls[j].found)
        => LET d == ov_calls[j].t - ov_calls[i].t
               total == ov_calls[i].posts + ov_calls[j].posts
           IN /\ (d < 10 => total = 1)
              /\ (d >= 11 => total = 2)

\* Witness of C6: a pair 6 seconds apart and a pair 11 seconds apart.
C6_Witness ==
    /\ ov_configured
    /\ Len(ov_calls) = 3
    /\ Consecutive(1, 2) /\ Consecutive(2, 3)
    /\ ov_calls[1].found /\ ov_calls[2].found /\ ov_calls[3].found
    /\ ov_calls[1].accepted
    /\ ov_calls[2].t - ov_calls[1].t = 6
    /\ ov_calls[3].t - ov_calls[1].t = 11
    /\ ov_calls[1].posts + ov_calls[2].posts = 1
    /\ ov_calls[3].posts = 1

\* C26: right after a call of handle_add_overseerr_media that is not
\* suppressed, at time t, _RECENT_REQUESTS maps the call's key to t and has
\* no entry older than t minus 2 minutes; an entry younger than 2 minutes
\* is not removed.
C26_PruneOnAccept ==
    [][(Len(ov_calls') > Len(ov_calls) /\ ov_calls'[Len(ov_calls')].accepted) =>
        LET key == ov_calls'[Len(ov_calls')].key
        IN /\ RECENT_REQUESTS'[key] = now
           /\ \A k \in RequestKeys :
                 RECENT_REQUESTS'[k] # None => now - RECENT_REQUESTS'[k] <= 120
           /\ \A k \in RequestKeys \ {key} :
                 (RECENT_REQUESTS[k] # None /\ now - RECENT_REQUESTS[k] < 120)
                     => RECENT_REQUESTS'[k] = RECENT_REQUESTS[k]
      ]_vars

\* A key accepted earlier has been pruned by a later call for another key.
C26_Witness ==
    /\ Len(ov_calls) >= 2
    /\ ov_calls[1].accepted
    /\ RECENT_REQUESTS[ov_calls[1].key] = None
    /\ ov_calls[Len(ov_calls)].accepted
    /\ RECENT_REQUESTS[ov_calls[Len(ov_calls)].key] = now

\* C29: a call is suppressed exactly when a call with the same key was
\* accepted less than 10 seconds before it, and a suppressed call leaves
\* _RECENT_REQUESTS as it was.
C29_SuppressedIffRecent ==
    [][/\ \A j \in 1..Len(ov_calls') :
             ~ov_calls'[j].accepted <=>
                 \E i \in 1..(j - 1) :
                    /\ ov_calls'[i].accepted
                    /\ ov_calls'[i].key = ov_calls'[j].key
                    /\ ov_calls'[j].t - ov_calls'[i].t < 10
       /\ (Len(ov_calls') > Len(ov_calls) /\ ~ov_calls'[Len(ov_calls')].accepted)
             => RECENT_REQUESTS' = RECENT_REQUESTS
      ]_vars

\* Calls for one key at 0, 6 and 12 seconds: accepted, suppressed, accepted.
C29_Witness ==
    /\ Len(ov_calls) = 3
    /\ ov_calls[1].key = ov_calls[2].key /\ ov_calls[2].key = ov_calls[3].key
    /\ ov_calls[1].t = 0 /\ ov_calls[2].t = 6 /\ ov_calls[3].t = 12
    /\ ov_calls[1].accepted /\ ~ov_calls[2].accepted /\ ov_calls[3].accepted
    /\ RECENT_REQUESTS[ov_calls[3].key] = 12

\* C30: after an accepted call that ended without a successful submission
\* (URL or API key missing, no search results, POST not answered 201), every
\* call with the same key less than 10 seconds later is suppressed and
\* issues no request to Overseerr.
C30_UnsuccessfulStillSuppresses ==
    \A i, j \in 1..Len(ov_calls) :
        (/\ i < j
         /\ ov_calls[i].key = ov_calls[j].key
         /\ ov_calls[i].accepted
         /\ ov_calls[i].outcome \in {"no config", "no results", "failed"}
         /\ ov_calls[j].t - ov_calls[i].t < 10)
        => /\ ov_calls[j].outcome = "duplicate"
           /\ ov_calls[j].posts = 0
           /\ (j = Len(ov_calls) /\ ov_last.outcome = "duplicate")
                 => ov_last.gets = 0 /\ ov_last.posts = 0

\* A failed POST, then the same call 9 seconds later, suppressed.
C30_Witness ==
    /\ Len(ov_calls) = 2
    /\ ov_calls[1].outcome = "failed"
    /\ ov_calls[2].key = ov_calls[1].key
    /\ ov_calls[2].t - ov_calls[1].t = 9
    /\ ov_calls[2].outcome = "duplicate"
    /\ ov_last = [outcome |-> "duplicate", gets |-> 0, posts |-> 0]

(***************************************************************************)
(* _parse_seasons and _resolve_seasons_default (__init__.py)               *)
(*                                                                         *)
(* The strings explored are over the characters digits, "-", ",", "[",     *)
(* "]", " " and letters; over these, a text json.loads accepts is an       *)
(* integer or an array, and any failure inside the try block (a parse      *)
(* error, or int() of a nested array) leads to the CSV fallback.           *)
(***************************************************************************)

\* The value standing for a raised ValueError.
PyValueError == [type |-> "ValueError", s |-> <<>>, l |-> <<>>]

RECURSIVE SplitOn(_, _)
\* str.split(c)
SplitOn(s, c) ==
    IF \A i \in 1..Len(s) : s[i] # c THEN <<s>>
    ELSE LET k == CHOOSE i \in 1..Len(s) :
                     s[i] = c /\ \A j \in 1..(i - 1) : s[j] # c
         IN <<SubSeq(s, 1, k - 1)>> \o SplitOn(SubSeq(s, k + 1, Len(s)), c)

\* Season numbers of one digit only.
IsDigitRun_single(p) == Len(p) = 1 /\ p[1] \in Digits

\* A non-empty run of digits.
IsDigitRun(p) == p # <<>> /\ \A i \in 1..Len(p) : p[i] \in Digits

\* A text int() accepts (after its own strip): an optional sign and digits.
IsPyInt(p) ==
    LET t == Strip(p)
    IN \/ IsDigitRun(t)
       \/ t # <<>> /\ t[1] \in {"-", "+"} /\ IsDigitRun(Tail(t))

\* int(p) for such a text.
PyIntVal(p) ==
    LET t == Strip(p)
        DigitRunVal(r) == ScanNumbers(r, 1, 0, FALSE)[1]
    IN IF t[1] = "-" THEN 0 - DigitRunVal(Tail(t))
       ELSE IF t[1] = "+" THEN DigitRunVal(Tail(t))
       ELSE DigitRunVal(t)

\* _parse_seasons(seasons_value): "all", a list of ints, or ValueError.
\*   IsJsonInt: a JSON integer literal (optional "-", digits, no leading
\*     zero); IsJsonIntArray: a JSON array of such literals, possibly empty,
\*     whitespace allowed; JsonIntArrayVal: the list built from it;
\*   CsvFallback: the except branch ("[" and "]" removed, split on ",",
\*     parts stripped and the empty ones dropped, int() of each; [1] when
\*     nothing is left).
ParseSeasons(seasons_value) ==
    LET IsJsonInt(t) ==
            LET d == IF t # <<>> /\ t[1] = "-" THEN Tail(t) ELSE t
            IN IsDigitRun(d) /\ (Len(d) > 1 => d[1] # "0")
        IsJsonIntArray(t) ==
            /\ Len(t) >= 2 /\ t[1] = "[" /\ t[Len(t)] = "]"
            /\ LET inner == Strip(SubSeq(t, 2, Len(t) - 1))
               IN \/ inner = <<>>
                  \/ \A i \in 1..Len(SplitOn(inner, ",")) :
                        IsJsonInt(Strip(SplitOn(inner, ",")[i]))
        JsonIntArrayVal(t) ==
            LET inner == Strip(SubSeq(t, 2, Len(t) - 1))
                parts == SplitOn(inner, ",")
            IN IF inner = <<>> THEN <<>>
               ELSE [i \in 1..Len(parts) |-> PyIntVal(parts[i])]
        CsvFallback(v) ==
            LET bare == SelectSeq(v, LAMBDA ch : ch \notin {"[", "]"})
                raw == SplitOn(bare, ",")
                stripped == [i \in 1..Len(raw) |-> Strip(raw[i])]
                parts == SelectSeq(stripped, LAMBDA q : q # <<>>)
            IN IF parts = <<>> THEN PyList(<<1>>)
               ELSE IF \E i \in 1..Len(parts) : ~IsPyInt(parts[i]) THEN PyValueError
               ELSE PyList([i \in 1..Len(parts) |-> PyIntVal(parts[i])])
    IN IF seasons_value.type = "str"
       THEN LET t == Strip(seasons_value.s)
            IN IF LowerStr(t) = StrAll THEN PyStr(StrAll)
               ELSE IF IsJsonIntArray(t) THEN PyList(JsonIntArrayVal(t))
               ELSE IF IsJsonInt(t) THEN PyList(<<PyIntVal(t)>>)
               ELSE CsvFallback(seasons_value.s)
       ELSE PyList(seasons_value.l)

(***************************************************************************)
(* The request_media service handler _svc_request (__init__.py)            *)
(*                                                                         *)
(* One invocation is in progress at a time.  The handler is split at its   *)
(* awaits: each logical HTTP call (_request with its retries) returns a    *)
(* value or raises the client's ERR_CLS.                                   *)
(***************************************************************************)

\* Largest number of invocations explored.
MaxInvocations == 2

\* Saved ids in entry.options / entry.data.  The server slots are filled
\* from the bottom of the fallback order upwards: servers = 0..4 fills the
\* legacy data field, then the legacy option, the per-kind data field and the
\* per-kind option; profiles = 0..2 fills the data field, then the option.
\* Radarr-labelled and Sonarr-labelled slots hold different ids; None when
\* not saved.
EntryOf(servers, profiles, seasons_opt) ==
    [opt_radarr  |-> IF servers >= 4 THEN 11 ELSE None,
     data_radarr |-> IF servers >= 3 THEN 12 ELSE None,
     opt_sonarr  |-> IF servers >= 4 THEN 21 ELSE None,
     data_sonarr |-> IF servers >= 3 THEN 22 ELSE None,
     opt_legacy  |-> IF servers >= 2 THEN 13 ELSE None,
     data_legacy |-> IF servers >= 1 THEN 14 ELSE None,
     opt_pmovie  |-> IF profiles >= 2 THEN 15 ELSE None,
     data_pmovie |-> IF profiles >= 1 THEN 16 ELSE None,
     opt_ptv     |-> IF profiles >= 2 THEN 25 ELSE None,
     data_ptv    |-> IF profiles >= 1 THEN 26 ELSE None,
     opt_seasons |-> seasons_opt,
     data_seasons |-> "None"]

\* A store holding the clients of both backends.
StoreOf_bothbackends(backend, srv, prof, root, qp, mode) ==
    [radarr_server_id |-> IF srv THEN 1 ELSE None,
     sonarr_server_id |-> IF srv THEN 2 ELSE None,
     movie_profile_id |-> IF prof THEN 5 ELSE None,
     tv_profile_id |-> IF prof THEN 6 ELSE None,
     radarr_root |-> IF root THEN "/movies" ELSE "None",
     radarr_quality_profile_id |-> IF qp THEN 4 ELSE None,
     sonarr_root |-> IF root THEN "/tv" ELSE "None",
     sonarr_quality_profile_id |-> IF qp THEN 7 ELSE None,
     default_tv_seasons_mode |-> mode,
     clients |-> {"overseerr", "radarr", "sonarr"}]

\* Runtime store: ovsr_selected, arr_selected, default_tv_seasons_mode and
\* the keys under which clients are stored (STORAGE_CLIENT, written
\* "overseerr" here, or "radarr" and "sonarr").
StoreOf(backend, srv, prof, root, qp, mode) ==
    [radarr_server_id |-> IF srv THEN 1 ELSE None,
     sonarr_server_id |-> IF srv THEN 2 ELSE None,
     movie_profile_id |-> IF prof THEN 5 ELSE None,
     tv_profile_id |-> IF prof THEN 6 ELSE None,
     radarr_root |-> IF root THEN "/movies" ELSE "None",
     radarr_quality_profile_id |-> IF qp THEN 4 ELSE None,
     sonarr_root |-> IF root THEN "/tv" ELSE "None",
     sonarr_quality_profile_id |-> IF qp THEN 7 ELSE None,
     default_tv_seasons_mode |-> mode,
     clients |-> IF backend = "overseerr" THEN {"overseerr"}
                 ELSE {"radarr", "sonarr"}]

\* The configured instances explored, as async_setup_entry leaves them.
\* Overseerr: the saved server ids and the runtime server selection vary
\* while no profile is saved or selected, or the other way round.  Arr: the
\* runtime root / quality profile selections vary.  The runtime mode is
\* seeded from the saved default: `options.get(...) or data.get(..., "season1")`.
SetupSet ==
    LET Seeded(saved) == IF TruthyStr(saved) THEN saved ELSE "season1"
    IN { [backend |-> "overseerr", entry |-> EntryOf(servers, 0, "None"),
          store |-> StoreOf("overseerr", sel, FALSE, FALSE, FALSE, Seeded("None"))] :
           servers \in 0..4, sel \in BOOLEAN }
       \cup
       { [backend |-> "overseerr", entry |-> EntryOf(0, profiles, "all"),
          store |-> StoreOf("overseerr", FALSE, sel, FALSE, FALSE, Seeded("all"))] :
           profiles \in 0..2, sel \in BOOLEAN }
       \cup
       { [backend |-> "arr", entry |-> EntryOf(0, 0, saved),
          store |-> StoreOf("arr", FALSE, FALSE, root, qp, Seeded(saved))] :
           root \in BOOLEAN, qp \in BOOLEAN, saved \in {"None"} }
       \cup
       { [backend |-> "arr", entry |-> EntryOf(0, 0, "all"),
          store |-> StoreOf("arr", FALSE, FALSE, TRUE, TRUE, Seeded("all"))] }

\* The title query explored.
QTitle == <<"D", "u", "n", "e">>

\* The call with only the required fields.  Overrides and seasons: None,
\* "None" or PyNone when the key is absent.
PlainCall == [query |-> QTitle, media_type |-> "movie", seasons |-> PyNone,
              overseerr_server_id |-> None, overseerr_profile_id |-> None,
              quality_profile_id |-> None, root_folder_path |-> "None"]

\* call.data before validation, as explored on a backend: calls that differ
\* from the plain call in the media type and in the fields of at most one of
\* the groups query (a direct id, a malformed direct id), seasons, Overseerr
\* overrides (one of the two), Arr overrides; "show" is explored without
\* overrides, with seasons absent or [1, 2].  The fields the other backend's branch reads stay absent, and
\* direct-id queries go to the Arr backend.  -2 is a profile id that
\* cv.positive_int rejects.
CallsFor(backend) ==
    { d \in [query : {QTitle, <<"t", "m", "d", "b", ":", "6", "0", "3">>,
                      <<"T", "M", "D", "B", ":", "x">>},
             media_type : {"movie", "tv", "show", "anime"},
             seasons : {PyNone, PyStr(StrAll), PyStr(<<"1", ",", "2">>),
                        PyStr(<<"x">>), PyList(<<1, 2>>), PyList(<<0, 2>>),
                        PyStr(<<"-", "1">>)},
             overseerr_server_id : {None, 0, 31},
             overseerr_profile_id : {None, 0, 32, -2},
             quality_profile_id : {None, 0, 9, -2},
             root_folder_path : {"None", "", "/x"}] :
        LET q == d.query # QTitle
            se == d.seasons # PyNone
            oo == d.overseerr_server_id # None \/ d.overseerr_profile_id # None
            ao == d.quality_profile_id # None \/ d.root_folder_path # "None"
        IN /\ ~(q /\ se) /\ ~(q /\ oo) /\ ~(q /\ ao)
           /\ ~(se /\ oo) /\ ~(se /\ ao) /\ ~(oo /\ ao)
           /\ d.overseerr_server_id = None \/ d.overseerr_profile_id = None
           /\ d.media_type = "show" =>
                 ~oo /\ ~ao /\ ~q /\ d.seasons \in {PyNone, PyList(<<1, 2>>)}
           /\ d.media_type = "anime" => d = [PlainCall EXCEPT !.media_type = "anime"]
           /\ IF backend = "overseerr" THEN ~q /\ ~ao ELSE ~oo }

\* SERVICE_REQUEST_SCHEMA: media_type in ["movie", "tv", "show"]; the
\* overrides are cv.positive_int (Coerce(int), Range(min=0)) or cv.string.
SchemaAccepts(d) ==
    /\ d.media_type \in {"movie", "tv", "show"}
    /\ d.overseerr_server_id = None \/ d.overseerr_server_id >= 0
    /\ d.overseerr_profile_id = None \/ d.overseerr_profile_id >= 0
    /\ d.quality_profile_id = None \/ d.quality_profile_id >= 0
    /\ d.seasons.type = "list" => \A i \in 1..Len(d.seasons.l) : d.seasons.l[i] >= 0

\* `mt = "tv" if media_type == "show" else media_type` after .lower()
MediaKind(media_type) ==
    IF Lower(media_type) = "show" THEN "tv" ELSE Lower(media_type)

\* _resolve_seasons_default(entry, media_type, seasons_value); default_mode
\* is `entry.options.get(...) or entry.data.get(..., "season1")`.
ResolveSeasonsDefault(entry, mt, seasons_value) ==
    LET default_mode ==
            IF TruthyStr(entry.opt_seasons) THEN entry.opt_seasons
            ELSE IF entry.data_seasons = "None" THEN "season1"
            ELSE entry.data_seasons
    IN IF mt # "tv" THEN PyNone
       ELSE IF seasons_value # PyNone THEN ParseSeasons(seasons_value)
       ELSE IF default_mode = "season1" THEN PyList(<<1>>)
       ELSE PyStr(StrAll)

\* The saved default is used, whatever the runtime mode.
SeasonsParam_saved(entry, store, mt, seasons_value) ==
    ResolveSeasonsDefault(entry, mt, seasons_value)

\* seasons_param after lines 144-150: the runtime mode replaces the entry
\* default when the call carries no seasons.
SeasonsParam(entry, store, mt, seasons_value) ==
    LET sp == ResolveSeasonsDefault(entry, mt, seasons_value)
        mode == store.default_tv_seasons_mode
    IN IF mt = "tv" /\ seasons_value = PyNone
       THEN IF mode = "season1" THEN PyList(<<1>>)
            ELSE IF mode = "all" THEN PyStr(StrAll)
            ELSE sp
       ELSE sp

\* Only the call's override is consulted.
ResolveServerId_overrideonly(d, store, entry, mt) == d.overseerr_server_id

\* server_id of lines 158-165 / 173-180.
ResolveServerId(d, store, entry, mt) ==
    IF mt = "movie"
    THEN OrNum(OrNum(OrNum(OrNum(OrNum(d.overseerr_server_id,
            store.radarr_server_id), entry.opt_radarr), entry.data_radarr),
            entry.opt_legacy), entry.data_legacy)
    ELSE OrNum(OrNum(OrNum(OrNum(OrNum(d.overseerr_server_id,
            store.sonarr_server_id), entry.opt_sonarr), entry.data_sonarr),
            entry.opt_legacy), entry.data_legacy)

\* profile_id of lines 166-171 / 181-186.
ResolveProfileId(d, store, entry, mt) ==
    IF mt = "movie"
    THEN OrNum(OrNum(OrNum(d.overseerr_profile_id, store.movie_profile_id),
            entry.opt_pmovie), entry.data_pmovie)
    ELSE OrNum(OrNum(OrNum(d.overseerr_profile_id, store.tv_profile_id),
            entry.opt_ptv), entry.data_ptv)

\* root and qprof of lines 211-212 / 223-224.
ResolveRoot(d, store, mt) ==
    IF TruthyStr(d.root_folder_path) THEN d.root_folder_path
    ELSE IF mt = "movie" THEN store.radarr_root ELSE store.sonarr_root

ResolveQprof(d, store, mt) ==
    OrNum(d.quality_profile_id,
          IF mt = "movie" THEN store.radarr_quality_profile_id
          ELSE store.sonarr_quality_profile_id)

\* `query.lower().startswith("tmdb:")`
IsTmdbQuery(query) ==
    Len(query) >= 5 /\ LowerStr(SubSeq(query, 1, 5)) = <<"t", "m", "d", "b", ":">>

\* `query.split(":", 1)[1]`
TmdbPart(query) == SubSeq(query, 6, Len(query))

(***************************************************************************)
(* _svc_request: the hassarr.request_media service handler.  One action    *)
(* per stretch of code between two awaits; the upstream servers' answers   *)
(* are the nondeterministic inputs.                                        *)
(***************************************************************************)

EVENT_REQUEST_COMPLETE == "hassarr_request_complete"

EVENT_REQUEST_FAILED == "hassarr_request_failed"

\* Overseerr search results explored: typed candidates carrying an id under
\* "id", "tmdbId" or "tmdb_id", under several of them, under no key, or a
\* zero id.
SearchAnswers ==
    LET Found(tag, pop, id, tmdbId, tmdb_id) ==
            [mediaType |-> tag, media_type |-> "None", popularity |-> pop,
             voteAverage |-> None, vote_average |-> None,
             id |-> id, tmdbId |-> tmdbId, tmdb_id |-> tmdb_id]
    IN { <<>>,
         << Found("movie", 5, 603, 604, 605), Found("tv", 9, 1396, None, None) >>,
         << Found("tv", 9, None, 1399, 1400) >>,
         << Found("movie", 5, 0, None, 27205), Found("tv", 9, 0, 0, 1402) >>,
         << Found("movie", 5, None, None, None) >>,
         << Found("movie", 5, 0, None, None) >> }

\* Only the "id" key is read.
BestTmdbId_idonly(best) == best.id

\* `best.get("id") or best.get("tmdbId") or best.get("tmdb_id")`
BestTmdbId(best) == OrNum(OrNum(best.id, best.tmdbId), best.tmdb_id)

RequestPayload_noseasons(media_type, tmdb_id, server_id, profile_id, seasons) ==
    [mediaType |-> media_type, mediaId |-> tmdb_id, is4k |-> FALSE,
     serverId |-> server_id, profileId |-> profile_id, seasons |-> PyNone]

\* request_media's payload; serverId / profileId are None and seasons is
\* PyNone when the key is not set.
RequestPayload(media_type, tmdb_id, server_id, profile_id, seasons) ==
    [mediaType |-> media_type,
     mediaId |-> tmdb_id,
     is4k |-> FALSE,
     serverId |-> server_id,
     profileId |-> profile_id,
     seasons |-> IF media_type # "tv" THEN PyNone
                 ELSE IF IsAllArg(seasons) THEN PyStr(StrAll)
                 ELSE IF ~TruthyPy(seasons) THEN PyNone
                 ELSE IF seasons.type = "str"
                      THEN PyList([i \in 1..Len(seasons.s) |-> DigitVal(seasons.s[i])])
                      ELSE PyList(seasons.l)]

\* Radarr / Sonarr lookup answers for a title: results[0].get("tmdbId").
TitleLookupAnswers == { <<>>, << [tmdbId |-> 603] >>, << [tmdbId |-> None] >> }

\* Radarr lookup answers for "tmdb:<id>" inside add_movie.
MovieAnswers ==
    { <<>>, << [title |-> "Dune", year |-> 2021] >>,
      << [title |-> "Dune", year |-> 2021], [title |-> "Dune", year |-> 1984] >> }

\* Sonarr lookup answers for "tmdb:<id>" inside add_series.
SeriesAnswers ==
    { <<>>, << [title |-> "A", seasons |-> <<0, 1, 2>>] >>,
      << [title |-> "A", seasons |-> <<0, 1, 2>>], [title |-> "B", seasons |-> <<1>>] >> }

\* A movie added without the immediate search.
MoviePayload_nosearch(m, tmdb_id, root, profile_id) ==
    [tmdbId |-> tmdb_id, title |-> m.title, year |-> m.year,
     qualityProfileId |-> profile_id, monitored |-> TRUE,
     rootFolderPath |-> root, addOptions |-> ""]

\* add_movie's payload.
MoviePayload(m, tmdb_id, root, profile_id) ==
    [tmdbId |-> tmdb_id, title |-> m.title, year |-> m.year,
     qualityProfileId |-> profile_id, monitored |-> TRUE,
     rootFolderPath |-> root, addOptions |-> "searchForMovie"]

\* The payload posted by the invocation: none yet.
NoOut ==
    [kind |-> "none",
     request |-> [mediaType |-> "", mediaId |-> None, is4k |-> FALSE,
                  serverId |-> None, profileId |-> None, seasons |-> PyNone],
     movie |-> [tmdbId |-> None, title |-> "", year |-> None,
                qualityProfileId |-> None, monitored |-> FALSE,
                rootFolderPath |-> "", addOptions |-> ""],
     series |-> NoPayload]

\* The handler's locals.
NoLoc == [mt |-> "", seasons_param |-> PyNone, server_id |-> None,
          profile_id |-> None, tmdb_id |-> None, root |-> "None",
          qprof |-> None, caught |-> "", results |-> <<>>,
          resp |-> [isdict |-> FALSE, d |-> <<>>]]

SvcIdle ==
    /\ sv_backend = "overseerr"
    /\ sv_entry = EntryOf(0, 0, "None")
    /\ sv_store = StoreOf("overseerr", FALSE, FALSE, FALSE, FALSE, "season1")
    /\ sv_pc = "idle"
    /\ sv_data = PlainCall
    /\ sv_loc = NoLoc
    /\ sv_out = NoOut
    /\ sv_http = <<>>
    /\ sv_events = <<>>
    /\ sv_raised = ""
    /\ sv_now = 0
    /\ sv_subs = <<>>
    /\ sv_count = 0

Event(type, loc, d) ==
    [type |-> type, backend |-> sv_backend, media_type |-> loc.mt, query |-> d.query,
     response |-> <<>>]

\* Answers to the POST that submits a request: a value that is not a dict
\* (a text body), or a dict from keys to tagged values (int, str, list,
\* dict); status texts of 3 and of 51 characters.
Responses ==
    LET PyInt(n) == [type |-> "int", s |-> <<>>, l |-> <<n>>]
        Dict == [type |-> "dict", s |-> <<>>, l |-> <<>>]
        Text(n) == PyStr([i \in 1..n |-> "s"])
        D1 == [k \in {} |-> PyNone]
        D2 == [k \in {"id", "mediaId", "status", "apiKey", "media"} |->
                 CASE k = "id" -> PyInt(7) [] k = "mediaId" -> PyInt(603)
                   [] k = "status" -> PyInt(2) [] k = "apiKey" -> Text(3)
                   [] OTHER -> Dict]
        D3 == [k \in {"id", "requestId", "status", "requestedBy"} |->
                 CASE k = "id" -> Text(1) [] k = "requestId" -> PyInt(8)
                   [] k = "status" -> Text(51) [] OTHER -> Dict]
        D4 == [k \in {"seriesId", "movieId", "mediaId", "status"} |->
                 CASE k = "seriesId" -> PyInt(9) [] k = "movieId" -> PyInt(10)
                   [] k = "mediaId" -> Text(3) [] OTHER -> PyList(<<1>>)]
        D5 == [k \in {"id", "title", "path", "status"} |->
                 CASE k = "id" -> PyInt(7) [] k = "status" -> Text(3)
                   [] OTHER -> Text(3)]
    IN {[isdict |-> FALSE, d |-> D1]}
       \cup {[isdict |-> TRUE, d |-> x] : x \in {D1, D2, D3, D4, D5}}

\* The whole response is put in the event.
MinimalEventSubset_whole(value, backend, media_type) == value.d

\* _minimal_event_subset(value, backend, media_type)
MinimalEventSubset(value, backend, media_type) ==
    LET d == value.d
        IsInt(k) == IF k \in DOMAIN d THEN d[k].type = "int" ELSE FALSE
        idkeys == <<"id", "requestId", "movieId", "seriesId">>
        found == {i \in 1..4 : IsInt(idkeys[i])}
        first == idkeys[CHOOSE i \in found : \A j \in found : i <= j]
        Decimal(n) == IF n < 10 THEN <<CHOOSE c \in Digits : DigitVal(c) = n>>
                      ELSE <<CHOOSE c \in Digits : DigitVal(c) = n \div 10,
                             CHOOSE c \in Digits : DigitVal(c) = n % 10>>
        HasStatus == IF "status" \in DOMAIN d
                     THEN d["status"].type \in {"str", "int"} ELSE FALSE
        str == IF d["status"].type = "int" THEN Decimal(d["status"].l[1])
               ELSE d["status"].s
        keys == (IF found # {} THEN {"id"} ELSE {})
                \cup (IF backend = "overseerr" /\ IsInt("mediaId") THEN {"mediaId"} ELSE {})
                \cup (IF backend = "overseerr" /\ HasStatus THEN {"status"} ELSE {})
    IN IF ~value.isdict THEN [k \in {} |-> PyNone]
       ELSE [k \in keys |->
               CASE k = "id" -> d[first]
                 [] k = "mediaId" -> d["mediaId"]
                 [] OTHER -> PyStr(SubSeq(str, 1, IF Len(str) < 50 THEN Len(str) ELSE 50))]

\* Time passes between two invocations.
SvcTick ==
    /\ sv_pc = "idle"
    /\ \E t \in {15} : t > sv_now /\ sv_now' = t
    /\ UNCHANGED <<sv_backend, sv_entry, sv_store, sv_pc, sv_data, sv_loc, sv_out, sv_http,
                   sv_events, sv_raised, sv_subs, sv_count>>
    /\ UNCHANGED <<reqVars, matchVars, arrVars, ovVars, pureVars, hassVars>>

\* DefaultTvSeasonsSelect.async_select_option: the chosen mode is written
\* to the runtime store.
SvcSelectSeasonsMode ==
    /\ sv_pc = "idle"
    /\ \E mode \in {"season1", "all"} :
          /\ mode # sv_store.default_tv_seasons_mode
          /\ sv_store' = [sv_store EXCEPT !.default_tv_seasons_mode = mode]
    /\ UNCHANGED <<sv_backend, sv_entry, sv_pc, sv_data, sv_loc, sv_out, sv_http,
                   sv_events, sv_raised, sv_now, sv_subs, sv_count>>
    /\ UNCHANGED <<reqVars, matchVars, arrVars, ovVars, pureVars, hassVars>>

\* A new invocation starts with fresh locals.
SvcEnter(d) ==
    /\ sv_count' = sv_count + 1
    /\ sv_data' = d
    /\ sv_out' = NoOut
    /\ UNCHANGED <<sv_backend, sv_entry, sv_store, sv_now>>
    /\ UNCHANGED <<reqVars, matchVars, arrVars, ovVars, pureVars, hassVars>>

\* The `except (OverseerrError, ArrError)` clause: fire the failed event and
\* raise HomeAssistantError.  cls names the exception caught, with
\* "(_request)" appended when _request raised it.
SvcCaught(loc, d, events, cls) ==
    /\ sv_loc' = [loc EXCEPT !.caught = cls]
    /\ sv_events' = Append(events, Event(EVENT_REQUEST_FAILED, loc, d))
    /\ sv_raised' = "HomeAssistantError"
    /\ sv_pc' = "done"

\* An exception that no clause of the handler catches leaves it as it is.
SvcEscapes(loc, events, cls) ==
    /\ sv_loc' = loc
    /\ sv_events' = events
    /\ sv_raised' = cls
    /\ sv_pc' = "done"

\* Line 139: the schema rejects the call.
SvcCallInvalid ==
    /\ sv_pc = "idle"
    /\ sv_count < MaxInvocations
    /\ \E d \in CallsFor(sv_backend) :
           /\ ~SchemaAccepts(d)
           /\ SvcEnter(d)
           /\ SvcEscapes(NoLoc, <<>>, "vol.Invalid")
           /\ sv_http' = <<>>
           /\ UNCHANGED sv_subs

\* Line 144: _parse_seasons raises ValueError before the try block.
SvcCallBadSeasons ==
    /\ sv_pc = "idle"
    /\ sv_count < MaxInvocations
    /\ \E d \in CallsFor(sv_backend) :
           LET mt == MediaKind(d.media_type)
           IN /\ SchemaAccepts(d)
              /\ SeasonsParam(sv_entry, sv_store, mt, d.seasons) = PyValueError
              /\ SvcEnter(d)
              /\ SvcEscapes([NoLoc EXCEPT !.mt = mt], <<>>, "ValueError")
              /\ sv_http' = <<>>
              /\ UNCHANGED sv_subs

\* The locals after line 150.
Locals(d) ==
    LET mt == MediaKind(d.media_type)
    IN [NoLoc EXCEPT !.mt = mt,
                     !.seasons_param = SeasonsParam(sv_entry, sv_store, mt, d.seasons)]

\* Overseerr branch up to the search request of request_media.
SvcCallOverseerr ==
    /\ sv_pc = "idle"
    /\ sv_count < MaxInvocations
    /\ \E d \in CallsFor(sv_backend) :
           LET loc == Locals(d)
           IN /\ sv_backend = "overseerr"
              /\ SchemaAccepts(d)
              /\ Locals(d).seasons_param # PyValueError
              /\ SvcEnter(d)
              /\ sv_loc' = [loc EXCEPT
                     !.server_id = ResolveServerId(d, sv_store, sv_entry, loc.mt),
                     !.profile_id = ResolveProfileId(d, sv_store, sv_entry, loc.mt)]
              /\ sv_http' = << [client |-> "overseerr", method |-> "GET", path |-> "/api/v1/search"] >>
              /\ sv_events' = <<>>
              /\ sv_raised' = ""
              /\ sv_pc' = "ov_search"
              /\ UNCHANGED sv_subs

\* An awaited _request raises the client's ERR_CLS (after its retries).
SvcRequestFails ==
    /\ sv_pc \in {"ov_search", "ov_post", "arr_lookup", "add_lookup", "add_post"}
    /\ SvcCaught(sv_loc, sv_data, sv_events,
                 IF sv_backend = "overseerr" THEN "OverseerrError(_request)"
                 ELSE "ArrError(_request)")
    /\ UNCHANGED <<sv_backend, sv_entry, sv_store, sv_data, sv_out, sv_http,
                   sv_now, sv_subs, sv_count>>
    /\ UNCHANGED <<reqVars, matchVars, arrVars, ovVars, pureVars, hassVars>>

\* The POST returns (for Overseerr: a JSON object whose "media" is absent or
\* an object); the complete event is fired.  _minimal_event_subset tolerates
\* any response shape.
SvcSubmitted ==
    /\ sv_pc \in {"ov_post", "add_post"}
    /\ \E resp \in Responses :
          /\ sv_pc = "ov_post" => resp.isdict
          /\ sv_loc' = [sv_loc EXCEPT !.resp = resp]
          /\ sv_events' = Append(sv_events,
                 [Event(EVENT_REQUEST_COMPLETE, sv_loc, sv_data) EXCEPT
                     !.response = MinimalEventSubset(resp, sv_backend, sv_loc.mt)])
    /\ sv_pc' = "done"
    /\ UNCHANGED <<sv_backend, sv_entry, sv_store, sv_data, sv_out,
                   sv_http, sv_raised, sv_now, sv_subs, sv_count>>
    /\ UNCHANGED <<reqVars, matchVars, arrVars, ovVars, pureVars, hassVars>>

\* No results, or a best match without a truthy TMDB id.
SvcSearchUnusable ==
    /\ sv_pc = "ov_search"
    /\ \E results \in SearchAnswers :
          LET best == BestMatch(results, sv_loc.mt)
          IN /\ IF best = <<>> THEN TRUE ELSE ~TruthyNum(BestTmdbId(best[1]))
             /\ SvcCaught([sv_loc EXCEPT !.results = results], sv_data,
                          sv_events, "OverseerrError")
    /\ UNCHANGED <<sv_backend, sv_entry, sv_store, sv_data, sv_out, sv_http, sv_now, sv_subs, sv_count>>
    /\ UNCHANGED <<reqVars, matchVars, arrVars, ovVars, pureVars, hassVars>>

\* The search answers; request_media builds the payload and posts it.
SvcSearchReturns ==
    /\ sv_pc = "ov_search"
    /\ \E results \in SearchAnswers :
          LET best == BestMatch(results, sv_loc.mt)
          IN /\ best # <<>>
             /\ TruthyNum(BestTmdbId(best[1]))
             /\ sv_loc' = [sv_loc EXCEPT !.tmdb_id = BestTmdbId(best[1]),
                                         !.results = results]
             /\ sv_out' = [NoOut EXCEPT !.kind = "request",
                    !.request = RequestPayload(sv_loc.mt, BestTmdbId(best[1]),
                                    sv_loc.server_id, sv_loc.profile_id,
                                    sv_loc.seasons_param)]
    /\ sv_http' = Append(sv_http, [client |-> "overseerr", method |-> "POST", path |-> "/api/v1/request"])
    /\ sv_subs' = Append(sv_subs, [query |-> sv_data.query, mt |-> sv_loc.mt, at |-> sv_now])
    /\ sv_pc' = "ov_post"
    /\ UNCHANGED <<sv_backend, sv_entry, sv_store, sv_data, sv_events, sv_raised, sv_now, sv_count>>
    /\ UNCHANGED <<reqVars, matchVars, arrVars, ovVars, pureVars, hassVars>>

\* The POST answers 2xx with a non-JSON body (a str) or with "media": null:
\* `resp.get("media", {}).get("tmdbId")` raises AttributeError.
SvcPostBadShape ==
    /\ sv_pc = "ov_post"
    /\ SvcEscapes(sv_loc, sv_events, "AttributeError")
    /\ UNCHANGED <<sv_backend, sv_entry, sv_store, sv_data, sv_out, sv_http, sv_now, sv_subs, sv_count>>
    /\ UNCHANGED <<reqVars, matchVars, arrVars, ovVars, pureVars, hassVars>>

\* Lines 211-232: with the TMDB id known, resolve root and quality profile;
\* raise ArrError when either is falsy, else enter add_movie / add_series,
\* whose first step is the "tmdb:<id>" lookup.
ArrProceed(loc, d, http, events, tmdb_id) ==
    LET loc1 == [loc EXCEPT !.tmdb_id = tmdb_id,
                            !.root = ResolveRoot(d, sv_store, loc.mt),
                            !.qprof = ResolveQprof(d, sv_store, loc.mt)]
        client == IF loc.mt = "movie" THEN "radarr" ELSE "sonarr"
    IN IF ~TruthyStr(loc1.root) \/ ~TruthyNum(loc1.qprof)
       THEN /\ SvcCaught(loc1, d, events, "ArrError")
            /\ sv_http' = http
       ELSE /\ sv_loc' = loc1
            /\ sv_events' = events
            /\ sv_raised' = ""
            /\ sv_http' = Append(http, [client |-> client, method |-> "GET", path |-> "lookup?term=tmdb:id"])
            /\ sv_pc' = "add_lookup"

\* Arr branch, title query: _ensure_tmdb_id_for_* issues a lookup.
SvcCallArrTitle ==
    /\ sv_pc = "idle"
    /\ sv_count < MaxInvocations
    /\ \E d \in CallsFor(sv_backend) :
           LET loc == Locals(d)
           IN /\ sv_backend = "arr"
              /\ ~IsTmdbQuery(d.query)
              /\ SchemaAccepts(d)
              /\ Locals(d).seasons_param # PyValueError
              /\ SvcEnter(d)
              /\ sv_loc' = loc
              /\ sv_http' = << [client |-> IF loc.mt = "movie" THEN "radarr" ELSE "sonarr", method |-> "GET", path |-> "lookup?term=title"] >>
              /\ sv_events' = <<>>
              /\ sv_raised' = ""
              /\ sv_pc' = "arr_lookup"
              /\ UNCHANGED sv_subs

\* Arr branch, "tmdb:<x>" with x not an integer literal: int() raises
\* ValueError inside the try block.
SvcCallArrTmdbBad ==
    /\ sv_pc = "idle"
    /\ sv_count < MaxInvocations
    /\ \E d \in CallsFor(sv_backend) :
           /\ sv_backend = "arr"
           /\ IsTmdbQuery(d.query)
           /\ ~IsPyInt(TmdbPart(d.query))
           /\ SchemaAccepts(d)
              /\ Locals(d).seasons_param # PyValueError
              /\ SvcEnter(d)
           /\ SvcEscapes(Locals(d), <<>>, "ValueError")
           /\ sv_http' = <<>>
           /\ UNCHANGED sv_subs

\* Arr branch, "tmdb:<id>": no lookup is needed for the id.
SvcCallArrTmdb ==
    /\ sv_pc = "idle"
    /\ sv_count < MaxInvocations
    /\ \E d \in CallsFor(sv_backend) :
           /\ sv_backend = "arr"
           /\ IsTmdbQuery(d.query)
           /\ IsPyInt(TmdbPart(d.query))
           /\ SchemaAccepts(d)
              /\ Locals(d).seasons_param # PyValueError
              /\ SvcEnter(d)
           /\ ArrProceed(Locals(d), d, <<>>, <<>>, PyIntVal(TmdbPart(d.query)))
           /\ UNCHANGED sv_subs

\* `if not results: raise ArrError`, and for a series `if not tmdb`.
SvcArrLookupEmpty ==
    /\ sv_pc = "arr_lookup"
    /\ \E results \in TitleLookupAnswers :
          \/ results = <<>>
          \/ results # <<>> /\ sv_loc.mt # "movie" /\ ~TruthyNum(results[1].tmdbId)
    /\ SvcCaught(sv_loc, sv_data, sv_events, "ArrError")
    /\ UNCHANGED <<sv_backend, sv_entry, sv_store, sv_data, sv_out, sv_http, sv_now, sv_subs, sv_count>>
    /\ UNCHANGED <<reqVars, matchVars, arrVars, ovVars, pureVars, hassVars>>

\* Movie lookup whose first result has no tmdbId: int(None) raises TypeError.
SvcArrLookupNoId ==
    /\ sv_pc = "arr_lookup"
    /\ sv_loc.mt = "movie"
    /\ \E results \in TitleLookupAnswers :
          results # <<>> /\ results[1].tmdbId = None
    /\ SvcEscapes(sv_loc, sv_events, "TypeError")
    /\ UNCHANGED <<sv_backend, sv_entry, sv_store, sv_data, sv_out, sv_http, sv_now, sv_subs, sv_count>>
    /\ UNCHANGED <<reqVars, matchVars, arrVars, ovVars, pureVars, hassVars>>

SvcArrLookupReturns ==
    /\ sv_pc = "arr_lookup"
    /\ \E results \in TitleLookupAnswers :
          /\ results # <<>>
          /\ results[1].tmdbId # None
          /\ ArrProceed(sv_loc, sv_data, sv_http, sv_events, results[1].tmdbId)
    /\ UNCHANGED <<sv_backend, sv_entry, sv_store, sv_data, sv_out, sv_now, sv_subs, sv_count>>
    /\ UNCHANGED <<reqVars, matchVars, arrVars, ovVars, pureVars, hassVars>>

\* `if not items: raise ArrError(...)`
SvcAddLookupEmpty ==
    /\ sv_pc = "add_lookup"
    /\ <<>> \in (IF sv_loc.mt = "movie" THEN MovieAnswers ELSE SeriesAnswers)
    /\ SvcCaught(sv_loc, sv_data, sv_events, "ArrError")
    /\ UNCHANGED <<sv_backend, sv_entry, sv_store, sv_data, sv_out, sv_http, sv_now, sv_subs, sv_count>>
    /\ UNCHANGED <<reqVars, matchVars, arrVars, ovVars, pureVars, hassVars>>

\* add_movie builds its payload and posts it.
SvcAddMovieLookupReturns ==
    /\ sv_pc = "add_lookup"
    /\ sv_loc.mt = "movie"
    /\ \E items \in MovieAnswers :
          /\ items # <<>>
          /\ sv_loc' = [sv_loc EXCEPT !.results = items]
          /\ sv_out' = [NoOut EXCEPT !.kind = "movie",
                 !.movie = MoviePayload(items[1], sv_loc.tmdb_id, sv_loc.root, sv_loc.qprof)]
    /\ sv_http' = Append(sv_http, [client |-> "radarr", method |-> "POST", path |-> "/api/v3/movie"])
    /\ sv_subs' = Append(sv_subs, [query |-> sv_data.query, mt |-> sv_loc.mt, at |-> sv_now])
    /\ sv_pc' = "add_post"
    /\ UNCHANGED <<sv_backend, sv_entry, sv_store, sv_data, sv_events, sv_raised, sv_now, sv_count>>
    /\ UNCHANGED <<reqVars, matchVars, arrVars, ovVars, pureVars, hassVars>>

\* add_series builds its payload and posts it.
SvcAddSeriesLookupReturns ==
    /\ sv_pc = "add_lookup"
    /\ sv_loc.mt = "tv"
    /\ \E items \in SeriesAnswers :
          /\ items # <<>>
          /\ sv_loc' = [sv_loc EXCEPT !.results = items]
          /\ sv_out' = [NoOut EXCEPT !.kind = "series",
                 !.series = SeriesPayload(items[1],
                     [tmdb_id |-> sv_loc.tmdb_id, root |-> sv_loc.root,
                      quality_profile_id |-> sv_loc.qprof,
                      language_profile_id |-> None,
                      seasons |-> sv_loc.seasons_param])]
    /\ sv_http' = Append(sv_http, [client |-> "sonarr", method |-> "POST", path |-> "/api/v3/series"])
    /\ sv_subs' = Append(sv_subs, [query |-> sv_data.query, mt |-> sv_loc.mt, at |-> sv_now])
    /\ sv_pc' = "add_post"
    /\ UNCHANGED <<sv_backend, sv_entry, sv_store, sv_data, sv_events, sv_raised, sv_now, sv_count>>
    /\ UNCHANGED <<reqVars, matchVars, arrVars, ovVars, pureVars, hassVars>>

\* The invocation is over: the handler's frame is gone, and the record of
\* the events it fired and the HTTP calls it issued starts afresh.
SvcExit ==
    /\ sv_pc = "done"
    /\ sv_pc' = "idle"
    /\ sv_data' = PlainCall
    /\ sv_loc' = NoLoc
    /\ sv_out' = NoOut
    /\ sv_http' = <<>>
    /\ sv_events' = <<>>
    /\ sv_raised' = ""
    /\ UNCHANGED <<sv_backend, sv_entry, sv_store, sv_now, sv_subs, sv_count>>
    /\ UNCHANGED <<reqVars, matchVars, arrVars, ovVars, pureVars, hassVars>>

SvcNext ==
    \/ SvcTick
    \/ SvcSelectSeasonsMode
    \/ SvcExit
    \/ SvcRequestFails
    \/ SvcSubmitted
    \/ SvcCallInvalid
    \/ SvcCallBadSeasons
    \/ SvcCallOverseerr
    \/ SvcSearchUnusable
    \/ SvcSearchReturns
    \/ SvcPostBadShape
    \/ SvcCallArrTitle
    \/ SvcCallArrTmdbBad
    \/ SvcCallArrTmdb
    \/ SvcArrLookupEmpty
    \/ SvcArrLookupNoId
    \/ SvcArrLookupReturns
    \/ SvcAddLookupEmpty
    \/ SvcAddMovieLookupReturns
    \/ SvcAddSeriesLookupReturns

(***************************************************************************)
(* Claims about the service handler                                        *)
(***************************************************************************)

\* C3: on the Arr backend, when the root folder or the quality profile is
\* still unset after the call override and the runtime selection have been
\* consulted, the request fails with ArrError and no HTTP call at all
\* (neither a lookup nor an add POST) has been made for that request.
C3_UnsetDestinationNoHttp ==
    (/\ sv_backend = "arr"
     /\ sv_pc = "done"
     /\ sv_loc.tmdb_id # None
     /\ ~TruthyStr(sv_loc.root) \/ ~TruthyNum(sv_loc.qprof))
    => /\ sv_loc.caught = "ArrError"
       /\ sv_http = <<>>

\* C4: on the Overseerr backend, a supplied overseerr_server_id (resp.
\* overseerr_profile_id) override that the schema accepts is the server_id
\* (resp. profile_id) passed to request_media, whatever the runtime
\* selection, saved options, entry data and legacy values are; without an
\* override the first value present in the order runtime selection, saved
\* per-kind option, entry data, legacy field is passed.
C4_OverrideWins ==
    (sv_backend = "overseerr" /\ sv_pc = "ov_search") =>
        LET movie == sv_loc.mt = "movie"
            servers == IF movie
                       THEN << sv_store.radarr_server_id, sv_entry.opt_radarr,
                               sv_entry.data_radarr, sv_entry.opt_legacy,
                               sv_entry.data_legacy >>
                       ELSE << sv_store.sonarr_server_id, sv_entry.opt_sonarr,
                               sv_entry.data_sonarr, sv_entry.opt_legacy,
                               sv_entry.data_legacy >>
            profiles == IF movie
                        THEN << sv_store.movie_profile_id, sv_entry.opt_pmovie,
                                sv_entry.data_pmovie >>
                        ELSE << sv_store.tv_profile_id, sv_entry.opt_ptv,
                                sv_entry.data_ptv >>
            FirstPresent(xs) ==
                IF \A i \in 1..Len(xs) : xs[i] = None THEN None
                ELSE xs[CHOOSE i \in 1..Len(xs) :
                            xs[i] # None /\ \A j \in 1..(i - 1) : xs[j] = None]
        IN /\ sv_loc.server_id =
                 IF sv_data.overseerr_server_id # None
                 THEN sv_data.overseerr_server_id ELSE FirstPresent(servers)
           /\ sv_loc.profile_id =
                 IF sv_data.overseerr_profile_id # None
                 THEN sv_data.overseerr_profile_id ELSE FirstPresent(profiles)

\* C5: every invocation of the handler ends having fired exactly one event:
\* hassarr_request_complete when the submission succeeded and nothing is
\* raised, hassarr_request_failed when the request failed for any reason,
\* in which case the failure is propagated to the caller as well.
C5_ExactlyOneEvent ==
    sv_pc = "done" =>
        /\ Len(sv_events) = 1
        /\ sv_events[1].type = EVENT_REQUEST_COMPLETE <=> sv_raised = ""
        /\ sv_events[1].type = EVENT_REQUEST_FAILED <=> sv_raised # ""

\* C7: two invocations with the same query and media kind less than 10
\* seconds apart result in at most one upstream submission.
C7_SvcDuplicateSuppressed ==
    \A i, j \in 1..Len(sv_subs) :
        (/\ i < j
         /\ sv_subs[i].query = sv_subs[j].query
         /\ sv_subs[i].mt = sv_subs[j].mt)
        => sv_subs[j].at - sv_subs[i].at >= DuplicateWindow

C15_MalformedFailsBeforeHttp ==
    (/\ sv_pc # "idle"
     /\ \/ sv_data.seasons.type = "str" /\ ParseSeasons(sv_data.seasons) = PyValueError
        \/ sv_data.overseerr_profile_id < None
        \/ sv_data.quality_profile_id < None) =>
        /\ sv_pc = "done"
        /\ sv_raised \in {"vol.Invalid", "ValueError"}
        /\ sv_http = <<>>

\* C16: once the search has answered, request_media raises OverseerrError
\* and issues no POST when there is no candidate or the best match carries
\* no usable id under "id", "tmdbId", "tmdb_id"; otherwise it issues exactly
\* one POST whose mediaId is the first usable of the three, in that order.
C16_FirstUsableId ==
    (sv_backend = "overseerr" /\ sv_pc \in {"ov_post", "done"}
        /\ (sv_loc.tmdb_id # None \/ sv_loc.caught = "OverseerrError")) =>
        LET Usable(v) == v # None /\ v # 0
            cand == IF sv_loc.results = <<>> THEN <<>>
                    ELSE BestMatch(sv_loc.results, sv_loc.mt)
            first == IF cand = <<>> THEN None
                     ELSE IF Usable(cand[1].id) THEN cand[1].id
                     ELSE IF Usable(cand[1].tmdbId) THEN cand[1].tmdbId
                     ELSE IF Usable(cand[1].tmdb_id) THEN cand[1].tmdb_id
                     ELSE None
            posts == Cardinality({i \in 1..Len(sv_http) : sv_http[i].method = "POST"})
        IN IF first = None
           THEN sv_loc.caught = "OverseerrError" /\ posts = 0 /\ sv_out = NoOut
           ELSE /\ sv_loc.caught # "OverseerrError"
                /\ posts = 1
                /\ sv_http[Len(sv_http)].path = "/api/v1/request"
                /\ sv_out.request.mediaId = first

\* A candidate with a zero "id" and no "tmdbId" was posted under its "tmdb_id".
C16_Witness ==
    /\ sv_pc = "ov_post"
    /\ sv_loc.mt = "movie"
    /\ sv_loc.results # <<>>
    /\ sv_loc.results[1].id = 0
    /\ sv_out.request.mediaId = 27205
    /\ Len(sv_http) = 2

\* No usable id: the failure was raised with the search as the only call.
C16_WitnessUnusable ==
    /\ sv_pc = "done"
    /\ sv_loc.caught = "OverseerrError"
    /\ sv_loc.results # <<>>
    /\ Len(sv_http) = 1

\* C17: when the "tmdb:<id>" lookup of add_movie / add_series answers, an
\* empty answer raises ArrError without a POST; a non-empty answer leads to
\* exactly one POST whose payload takes its title from the first result, has
\* monitored = true and asks for the immediate search.
C17_AddFromFirstResult ==
    [][(sv_pc = "add_lookup" /\ sv_pc' # "add_lookup"
            /\ sv_loc'.caught # "ArrError(_request)") =>
        LET posts == Cardinality({i \in 1..Len(sv_http') : sv_http'[i].method = "POST"})
            items == sv_loc'.results
        IN IF items = <<>>
           THEN /\ sv_loc'.caught = "ArrError"
                /\ sv_raised' = "HomeAssistantError"
                /\ posts = 0
                /\ sv_http' = sv_http
                /\ sv_out' = NoOut
           ELSE /\ posts = 1
                /\ sv_http'[Len(sv_http')].method = "POST"
                /\ sv_loc'.caught = ""
                /\ IF sv_loc.mt = "movie"
                   THEN /\ sv_out'.kind = "movie"
                        /\ sv_out'.movie.title = items[1].title
                        /\ sv_out'.movie.year = items[1].year
                        /\ sv_out'.movie.monitored
                        /\ sv_out'.movie.addOptions = "searchForMovie"
                   ELSE /\ sv_out'.kind = "series"
                        /\ sv_out'.series.title = items[1].title
                        /\ Len(sv_out'.series.seasons) = Len(items[1].seasons)
                        /\ sv_out'.series.monitored
                        /\ sv_out'.series.addOptions = "searchForMissingEpisodes"
      ]_vars

\* Radarr answered the lookup with two movies and the first one was posted.
C17_Witness ==
    /\ sv_pc = "add_post"
    /\ sv_out.kind = "movie"
    /\ Len(sv_loc.results) = 2
    /\ sv_out.movie.year = 2021
    /\ sv_out.movie.monitored
    /\ sv_http[Len(sv_http)].path = "/api/v3/movie"

\* C19: the payload posted to Overseerr carries serverId exactly when the
\* server id passed to request_media is not None, and then with that value;
\* likewise profileId.  When neither the call, the runtime selection nor a
\* saved or legacy value supplies one, the key is absent; when one of them
\* supplies a non-zero value, the key is present.
C19_IdKeysOnlyWhenResolved ==
    (sv_pc = "ov_post" /\ sv_out.kind = "request") =>
        LET p == sv_out.request
            movie == sv_loc.mt = "movie"
            servers == {sv_data.overseerr_server_id, sv_entry.opt_legacy,
                        sv_entry.data_legacy}
                       \cup (IF movie
                             THEN {sv_store.radarr_server_id, sv_entry.opt_radarr,
                                   sv_entry.data_radarr}
                             ELSE {sv_store.sonarr_server_id, sv_entry.opt_sonarr,
                                   sv_entry.data_sonarr})
            profiles == {sv_data.overseerr_profile_id}
                        \cup (IF movie
                              THEN {sv_store.movie_profile_id, sv_entry.opt_pmovie,
                                    sv_entry.data_pmovie}
                              ELSE {sv_store.tv_profile_id, sv_entry.opt_ptv,
                                    sv_entry.data_ptv})
        IN /\ p.serverId = sv_loc.server_id
           /\ p.profileId = sv_loc.profile_id
           /\ servers = {None} => p.serverId = None
           /\ profiles = {None} => p.profileId = None
           /\ servers \ {None, 0} # {} => p.serverId \in servers \ {None, 0}
           /\ profiles \ {None, 0} # {} => p.profileId \in profiles \ {None, 0}

\* A request posted with a profile id and without a server id.
C19_Witness ==
    /\ sv_pc = "ov_post"
    /\ sv_out.kind = "request"
    /\ sv_loc.server_id = None
    /\ sv_out.request.serverId = None
    /\ sv_out.request.profileId # None
    /\ sv_out.request.profileId = sv_loc.profile_id

\* C22: the response part of the complete event has no key besides id (Arr)
\* or id, mediaId and status (Overseerr); id is an integer found in the
\* response under id, requestId, movieId or seriesId, mediaId is the
\* response's integer mediaId, and status is a text of at most 50 characters.
C22_MinimalResponse ==
    (sv_pc = "done" /\ sv_raised = "") =>
        LET r == sv_events[1].response
            d == sv_loc.resp.d
        IN /\ DOMAIN r \subseteq (IF sv_backend = "overseerr"
                                  THEN {"id", "mediaId", "status"} ELSE {"id"})
           /\ "id" \in DOMAIN r =>
                 /\ r["id"].type = "int"
                 /\ \E k \in DOMAIN d \cap {"id", "requestId", "movieId", "seriesId"} :
                       d[k] = r["id"]
           /\ "mediaId" \in DOMAIN r =>
                 r["mediaId"].type = "int" /\ r["mediaId"] = d["mediaId"]
           /\ "status" \in DOMAIN r =>
                 r["status"].type = "str" /\ Len(r["status"].s) <= 50

\* An Overseerr answer with a status of 51 characters and an API key gave an
\* event with the request id and the status cut to 50 characters.
C22_Witness ==
    /\ sv_pc = "done"
    /\ sv_raised = ""
    /\ sv_backend = "overseerr"
    /\ "requestedBy" \in DOMAIN sv_loc.resp.d
    /\ DOMAIN sv_events[1].response = {"id", "status"}
    /\ sv_events[1].response["id"].l = <<8>>
    /\ Len(sv_events[1].response["status"].s) = 50

\* C23: the store of an entry holds the Overseerr client only or the Radarr
\* and Sonarr clients only, as the entry's backend says, and every HTTP call
\* of a request goes through a client of that store.
C23_OneBackend ==
    /\ sv_store.clients = IF sv_backend = "overseerr" THEN {"overseerr"}
                          ELSE {"radarr", "sonarr"}
    /\ \A i \in 1..Len(sv_http) : sv_http[i].client \in sv_store.clients
    /\ ~(\E i, j \in 1..Len(sv_http) :
            sv_http[i].client = "overseerr" /\ sv_http[j].client # "overseerr")

\* A series was added on the Arr backend through three Sonarr calls.
C23_Witness ==
    /\ sv_backend = "arr"
    /\ sv_pc = "done"
    /\ sv_raised = ""
    /\ Len(sv_http) = 3
    /\ \A i \in 1..3 : sv_http[i].client = "sonarr"

\* C24: a TV request without seasons passes [1] to the backend client when
\* the runtime default mode is season1 and "all" when it is all, the mode
\* being the one in the runtime store when the request is issued; a TV
\* request with seasons passes the parsed seasons whatever the mode is.
C24_DefaultSeasons ==
    (sv_pc \notin {"idle", "done"} /\ sv_loc.mt = "tv") =>
        LET mode == sv_store.default_tv_seasons_mode
            passed == IF sv_data.seasons # PyNone THEN ParseSeasons(sv_data.seasons)
                      ELSE IF mode = "season1" THEN PyList(<<1>>)
                      ELSE PyStr(StrAll)
        IN /\ sv_loc.seasons_param = passed
           /\ sv_pc = "ov_post" => sv_out.request.seasons = passed
           /\ (sv_pc = "add_post" /\ sv_data.seasons = PyNone) =>
                 \A i \in 1..Len(sv_out.series.seasons) :
                    sv_out.series.seasons[i].monitored <=>
                        IF mode = "season1"
                        THEN sv_out.series.seasons[i].seasonNumber = 1
                        ELSE TRUE

\* The saved default is "all", the mode was changed to season1 through the
\* select, and the next request posted seasons [1].
C24_Witness ==
    /\ sv_pc = "ov_post"
    /\ sv_loc.mt = "tv"
    /\ sv_data.seasons = PyNone
    /\ sv_entry.opt_seasons = "all"
    /\ sv_store.default_tv_seasons_mode = "season1"
    /\ sv_out.request.seasons = PyList(<<1>>)

\* C25: a list of seasons resolved from the caller's input and passed to a
\* backend client holds only integers >= 1.
C25_PositiveSeasons ==
    (sv_pc \in {"ov_search", "ov_post", "arr_lookup", "add_lookup", "add_post"}
        /\ sv_data.seasons # PyNone
        /\ sv_loc.seasons_param.type = "list") =>
        \A i \in 1..Len(sv_loc.seasons_param.l) : sv_loc.seasons_param.l[i] >= 1

(***************************************************************************)
(* The two season parsers as functions of one input:                       *)
(* _parse_seasons (__init__.py) and parse_seasons_input (services.py)      *)
(***************************************************************************)

\* Longest list of season numbers written out.
MaxSeasonList == 3

\* Ways a seasons argument is written: a list of season numbers as CSV text,
\* as JSON-array text or as a list, and free text.
SeasonSources ==
    LET Numbers == {1, 2, 5, 10}
        Lists == UNION {[1..n -> Numbers] : n \in 1..MaxSeasonList}
        Words == {<<a, l1, l2>> : a \in {"a", "A"}, l1 \in {"l", "L"},
                                  l2 \in {"l", "L"}}
                 \cup {<<" ", "a", "l", "l">>, <<"a", "l">>, <<"x">>, <<>>,
                       <<"S", "1">>, <<"[", "]">>}
    IN [form : {"csv", "json", "list"}, xs : Lists, text : {<<>>}]
       \cup [form : {"text"}, xs : {<<>>}, text : Words]

\* The Python value a source denotes.
SeasonInput(src) ==
    LET DigitChar(d) == CHOOSE c \in Digits : DigitVal(c) = d
        Decimal(n) == IF n < 10 THEN <<DigitChar(n)>>
                      ELSE <<DigitChar(n \div 10), DigitChar(n % 10)>>
        RECURSIVE Csv(_)
        Csv(k) == IF k = 0 THEN <<>>
                  ELSE IF k = 1 THEN Decimal(src.xs[1])
                  ELSE Csv(k - 1) \o <<",">> \o Decimal(src.xs[k])
    IN CASE src.form = "csv" -> PyStr(Csv(Len(src.xs)))
         [] src.form = "json" -> PyStr(<<"[">> \o Csv(Len(src.xs)) \o <<"]">>)
         [] src.form = "list" -> PyList(src.xs)
         [] OTHER -> PyStr(src.text)

PureIdle ==
    /\ ps_in = [form |-> "text", xs |-> <<>>, text |-> <<>>]
    /\ ps_out = <<>>
    /\ sc_msg = [prefix |-> <<>>, scheme |-> <<>>, rest |-> <<>>,
                 suffix |-> <<>>, text |-> <<>>]
    /\ sc_out = <<>>

\* Both parsers are applied to the input.
ParseSeasonsCall ==
    /\ ps_out = <<>>
    /\ ps_out' = << [new |-> ParseSeasons(SeasonInput(ps_in)),
                     old |-> ParseSeasonsInput(SeasonInput(ps_in))] >>
    /\ UNCHANGED <<ps_in, sc_msg, sc_out>>
    /\ UNCHANGED <<reqVars, matchVars, arrVars, ovVars, svcVars, hassVars>>

PureNext == ParseSeasonsCall

(***************************************************************************)
(* Claims about the season parsers                                         *)
(***************************************************************************)

\* C13: a string equal to "all" when letter case is ignored is resolved to
\* the value "all" by _parse_seasons and by parse_seasons_input.
C13_AllAnyCase ==
    (/\ ps_out # <<>>
     /\ ps_in.form = "text"
     /\ Len(ps_in.text) = 3
     /\ ps_in.text[1] \in {"a", "A"}
     /\ ps_in.text[2] \in {"l", "L"}
     /\ ps_in.text[3] \in {"l", "L"}) =>
        /\ ps_out[1].new = PyStr(StrAll)
        /\ ps_out[1].old = PyStr(StrAll)

C13_Witness ==
    /\ ps_out # <<>>
    /\ ps_in.text = <<"A", "L", "l">>
    /\ ps_out[1].new = PyStr(StrAll)
    /\ ps_out[1].old = PyStr(StrAll)

\* C14: the CSV text, the JSON-array text and the list of the same season
\* numbers are each resolved to exactly those season numbers, by both
\* parsers, so the result does not depend on the representation.
C14_SameSetAnyForm ==
    (ps_out # <<>> /\ ps_in.form \in {"csv", "json", "list"}) =>
        /\ ps_out[1].new.type = "list"
        /\ ps_out[1].new.l = ps_in.xs
        /\ ps_out[1].old.type = "list"
        /\ ps_out[1].old.l = ps_in.xs

C14_Witness ==
    /\ ps_out # <<>>
    /\ ps_in.form = "json"
    /\ SeasonInput(ps_in) = PyStr(<<"[", "1", ",", "2", ",", "5", "]">>)
    /\ ps_out[1].new = PyList(<<1, 2, 5>>)
    /\ ps_out[1].old = PyList(<<1, 2, 5>>)

(***************************************************************************)
(* _scrub_error_text (__init__.py)                                         *)
(***************************************************************************)

\* Longest run of characters explored after the "://" of a URL.
MaxRest == 4

\* `if len(cleaned) > 500`
ScrubLimit == 500

\* Error messages explored: a URL, made of a scheme and of up to MaxRest
\* characters out of user, host and key letters and the delimiters of a URL,
\* at the start of the message, after a word and a blank, or glued to a
\* letter, and followed by nothing or by a blank and a word; and long
\* messages, of a length around the truncation limit, without a URL or
\* ending in one.
ScrubMessages ==
    LET Rests == UNION {[1..n -> {"u", "h", "k", ":", "@", "/", "?"}] : n \in 0..MaxRest}
        Filler(n) == [i \in 1..n |-> "z"]
        Url == <<" ", "h", "t", "t", "p", ":", "/", "/", "u", "@", "h", "/", "k", "k">>
        Long == { Filler(n) : n \in (ScrubLimit - 2)..(ScrubLimit + 2) }
                \cup { Filler(ScrubLimit - 4) \o Url, Filler(ScrubLimit) \o Url }
    IN { [prefix |-> <<>>, scheme |-> <<>>, rest |-> <<>>, suffix |-> <<>>,
          text |-> t] : t \in Long }
       \cup
       { [prefix |-> p, scheme |-> sch, rest |-> r, suffix |-> x,
          text |-> p \o sch \o r \o x] :
            p \in {<<>>, <<"e", " ">>, <<"x">>},
            sch \in {<<"h", "t", "t", "p", ":", "/", "/">>,
                     <<"h", "t", "t", "p", "s", ":", "/", "/">>},
            r \in Rests,
            x \in {<<>>, <<" ", "z">>} }

\* _URL_RE.sub(_replace, msg), then the truncation to 500 characters.  The
\* pattern is \bhttps?://[^\s]+ ; over the characters explored only the
\* blank is whitespace and the URL delimiters and the blank are not word
\* characters.
ScrubErrorText(msg) ==
    LET n == Len(msg)
        WordChar(c) == c \notin {":", "/", "@", "?", " "}
        At(i, lit) == /\ i + Len(lit) - 1 <= n
                      /\ LowerStr(SubSeq(msg, i, i + Len(lit) - 1)) = lit
        SchemeLen(i) ==
            IF At(i, <<"h", "t", "t", "p", ":", "/", "/">>) THEN 7
            ELSE IF At(i, <<"h", "t", "t", "p", "s", ":", "/", "/">>) THEN 8
            ELSE 0
        Boundary(i) == IF i = 1 THEN TRUE ELSE ~WordChar(msg[i - 1])
        \* last position of the match starting at i, 0 if none starts there
        MatchEnd(i) ==
            LET j == i + SchemeLen(i)
            IN IF SchemeLen(i) = 0 \/ ~Boundary(i) THEN 0
               ELSE IF j > n THEN 0
               ELSE IF msg[j] = " " THEN 0
               ELSE CHOOSE e \in j..n :
                       /\ \A k \in j..e : msg[k] # " "
                       /\ IF e = n THEN TRUE ELSE msg[e + 1] = " "
        \* s.split(c, 1)[0] and s.split(c, 1)[-1]
        Before(t, c) ==
            IF \E k \in 1..Len(t) : t[k] = c
            THEN SubSeq(t, 1, (CHOOSE k \in 1..Len(t) :
                                 t[k] = c /\ \A m \in 1..(k - 1) : t[m] # c) - 1)
            ELSE t
        After(t, c) ==
            IF \E k \in 1..Len(t) : t[k] = c
            THEN SubSeq(t, (CHOOSE k \in 1..Len(t) :
                              t[k] = c /\ \A m \in 1..(k - 1) : t[m] # c) + 1, Len(t))
            ELSE t
        \* _replace(m): the match starts with its scheme, so the first "://"
        \* is the scheme's
        Replace(i) ==
            LET no_scheme == SubSeq(msg, i + SchemeLen(i), MatchEnd(i))
            IN After(Before(no_scheme, "/"), "@")
        \* matches do not overlap and each runs to the end of its run of
        \* non-blank characters: position i lies inside an earlier match
        \* exactly when a match could start before it and reach it
        Inside(i) == \E j \in 1..(i - 1) :
                        msg[j] \in {"h", "H"} /\ MatchEnd(j) >= i
        Piece(i) == IF Inside(i) THEN <<>>
                    ELSE IF MatchEnd(i) > 0 THEN Replace(i)
                    ELSE <<msg[i]>>
        RECURSIVE Sub(_, _)
        Sub(lo, hi) == IF lo > hi THEN <<>>
                       ELSE IF lo = hi THEN Piece(lo)
                       ELSE Sub(lo, (lo + hi) \div 2) \o Sub((lo + hi) \div 2 + 1, hi)
        cleaned == Sub(1, n)
    IN IF Len(cleaned) > ScrubLimit
       THEN SubSeq(cleaned, 1, ScrubLimit) \o <<"...">>   \* one character
       ELSE cleaned

\* _scrub_error_text(str(e)) is evaluated for the failed event.
ScrubCall ==
    /\ sc_out = <<>>
    /\ sc_out' = << ScrubErrorText(sc_msg.text) >>
    /\ UNCHANGED <<ps_in, ps_out, sc_msg>>
    /\ UNCHANGED <<reqVars, matchVars, arrVars, ovVars, svcVars, hassVars>>

ScrubNext == ScrubCall

\* C20: an http(s) URL standing at the start of the error message or after
\* a blank is replaced in the scrubbed text by its host[:port] only: what
\* precedes the first "/" or "?" and follows the last "@".  Nothing of the
\* scheme, the userinfo, the path or the query string is left.
C20_UrlsReducedToHost ==
    (/\ sc_out # <<>>
     /\ sc_msg.rest # <<>>
     /\ sc_msg.prefix # <<"x">>) =>
        LET rest == sc_msg.rest
            stops == {i \in 1..Len(rest) : rest[i] \in {"/", "?"}}
            authority ==
                IF stops = {} THEN rest
                ELSE SubSeq(rest, 1, (CHOOSE i \in stops : \A j \in stops : i <= j) - 1)
            ats == {i \in 1..Len(authority) : authority[i] = "@"}
            hostport ==
                IF ats = {} THEN authority
                ELSE SubSeq(authority, (CHOOSE i \in ats : \A j \in ats : i >= j) + 1,
                            Len(authority))
        IN sc_out[1] = sc_msg.prefix \o hostport \o sc_msg.suffix

\* C21: the scrubbed error text is never longer than 500 characters.
C21_AtMostLimit ==
    sc_out # <<>> => Len(sc_out[1]) <= ScrubLimit

(***************************************************************************)
(* Config entries and the request_media service                            *)
(* async_setup_entry, async_unload_entry (__init__.py)                      *)
(***************************************************************************)

\* Largest number of config entries of the integration.
MaxEntries == 3

\* async_setup_entry calls explored.
MaxSetups == 4

\* No handler is registered under hassarr.request_media.
NoHandler == [registered |-> FALSE, entry |-> 0, store |-> <<>>]

HassIdle ==
    /\ lc_data = [e \in {} |-> <<>>]
    /\ lc_handler = NoHandler
    /\ lc_setups = 0
    /\ lc_call = "none"
    /\ se_entry = [p \in {"movie", "tv"} |-> [server |-> None, profile |-> None]]
    /\ se_pair = [p \in {"movie", "tv"} |->
                    [srv_added |-> FALSE, srv_cur |-> None, srv_values |-> {},
                     prof_added |-> FALSE, prof_cur |-> None, prof_values |-> {},
                     server_id |-> None, profile_id |-> None]]
    /\ se_last = [op |-> "none", pair |-> "movie"]

\* async_setup_entry(hass, entry) of an entry that is not loaded: a new store
\* is put under hass.data[DOMAIN][entry.entry_id]; _svc_request is defined,
\* closing over `entry`, `backend` and `store`, and registered under the one
\* name (DOMAIN, SERVICE_REQUEST_MEDIA), replacing what was registered.
LcSetupEntry(e, backend) ==
    /\ e \notin DOMAIN lc_data
    /\ lc_setups < MaxSetups
    /\ LET store == [backend |-> backend, n |-> lc_setups + 1]
       IN /\ lc_data' = [x \in DOMAIN lc_data \cup {e} |->
                            IF x = e THEN store ELSE lc_data[x]]
          /\ lc_handler' = [registered |-> TRUE, entry |-> e, store |-> <<store>>]
    /\ lc_setups' = lc_setups + 1
    /\ lc_call' = "none"
    /\ UNCHANGED <<se_entry, se_pair, se_last>>
    /\ UNCHANGED <<reqVars, matchVars, arrVars, ovVars, svcVars, pureVars>>

\* async_unload_entry(hass, entry): pop the entry's store; remove the service
\* only when no store is left.
LcUnloadEntry(e) ==
    /\ e \in DOMAIN lc_data
    /\ lc_data' = [x \in DOMAIN lc_data \ {e} |-> lc_data[x]]
    /\ lc_handler' = IF DOMAIN lc_data \ {e} = {} THEN NoHandler ELSE lc_handler
    /\ lc_call' = "none"
    /\ UNCHANGED <<lc_setups, se_entry, se_pair, se_last>>
    /\ UNCHANGED <<reqVars, matchVars, arrVars, ovVars, svcVars, pureVars>>

\* hassarr.request_media is called.  Without a registration Home Assistant
\* raises ServiceNotFound.  The overseerr branch reads
\* hass.data[DOMAIN][entry.entry_id] at line 154 and the arr branch at line
\* 207, with the `entry` of the closure: a KeyError when that entry was popped.
LcCall ==
    /\ lc_call = "none"
    /\ lc_call' = IF ~lc_handler.registered THEN "ServiceNotFound"
                  ELSE IF lc_handler.entry \notin DOMAIN lc_data THEN "KeyError"
                  ELSE "handled"
    /\ UNCHANGED <<lc_data, lc_handler, lc_setups, se_entry, se_pair, se_last>>
    /\ UNCHANGED <<reqVars, matchVars, arrVars, ovVars, svcVars, pureVars>>

LifeNext ==
    \/ \E e \in 1..MaxEntries, backend \in {"overseerr", "arr"} : LcSetupEntry(e, backend)
    \/ \E e \in 1..MaxEntries : LcUnloadEntry(e)
    \/ LcCall

\* C27: whenever request_media is registered, the entry and the store its
\* handler closes over are in hass.data[DOMAIN]; and the service is
\* registered exactly when at least one entry is loaded.
C27_HandlerBoundToLoadedEntry ==
    /\ lc_handler.registered <=> DOMAIN lc_data # {}
    /\ lc_handler.registered =>
          /\ lc_handler.entry \in DOMAIN lc_data
          /\ lc_data[lc_handler.entry] = lc_handler.store[1]

(***************************************************************************)
(* Overseerr select entities (select.py)                                   *)
(* RadarrServerSelect / MovieProfileSelect, SonarrServerSelect /           *)
(* TvProfileSelect                                                         *)
(***************************************************************************)

\* The profiles Overseerr reports in the details of a Radarr or Sonarr
\* server; servers 1 and 2 exist, server 1 is the default one.
ProfilesOf(server) ==
    CASE server = 1 -> {1, 2}
      [] server = 2 -> {2, 3}
      [] OTHER -> {}

\* MovieProfileSelect._refresh / TvProfileSelect._refresh on the pair's
\* record r; `ok` is whether the details request succeeded.
ProfileRefresh(r, saved, ok) ==
    LET profiles == IF TruthyNum(r.server_id) /\ ok THEN ProfilesOf(r.server_id) ELSE {}
        cur == IF TruthyNum(r.profile_id) THEN r.profile_id ELSE saved.profile
        current == IF cur # None THEN cur ELSE r.prof_cur
    IN [r EXCEPT !.prof_values = {None} \cup profiles,
                 !.prof_cur = current,
                 !.profile_id = current]

\* RadarrServerSelect.async_added_to_hass: _refresh, then the profile
\* select's _refresh.  `listed` is whether list_radarr succeeded.
SeServerAdded(p) ==
    /\ ~se_pair[p].srv_added
    /\ \E listed \in BOOLEAN, ok \in BOOLEAN :
          LET r == se_pair[p]
              servers == IF listed THEN {1, 2} ELSE {}
              byDefault == IF listed /\ r.srv_cur = None THEN 1 ELSE r.srv_cur
              cur == IF TruthyNum(r.server_id) THEN r.server_id ELSE se_entry[p].server
              bySaved == IF cur # None THEN cur ELSE byDefault
              current == IF bySaved = None /\ listed THEN 1 ELSE bySaved
              r1 == [r EXCEPT !.srv_added = TRUE, !.srv_values = {None} \cup servers,
                              !.srv_cur = current, !.server_id = current]
          IN se_pair' = [se_pair EXCEPT ![p] = ProfileRefresh(r1, se_entry[p], ok)]
    /\ se_last' = [op |-> "server_added", pair |-> p]
    /\ UNCHANGED <<lc_data, lc_handler, lc_setups, lc_call, se_entry>>
    /\ UNCHANGED <<reqVars, matchVars, arrVars, ovVars, svcVars, pureVars>>

\* MovieProfileSelect.async_added_to_hass: _refresh.
SeProfileAdded(p) ==
    /\ ~se_pair[p].prof_added
    /\ \E ok \in BOOLEAN :
          se_pair' = [se_pair EXCEPT ![p] =
                         ProfileRefresh([se_pair[p] EXCEPT !.prof_added = TRUE],
                                        se_entry[p], ok)]
    /\ se_last' = [op |-> "profile_added", pair |-> p]
    /\ UNCHANGED <<lc_data, lc_handler, lc_setups, lc_call, se_entry>>
    /\ UNCHANGED <<reqVars, matchVars, arrVars, ovVars, svcVars, pureVars>>

\* RadarrServerSelect.async_select_option with the option of value v, then
\* _handle_selection_changed: the id is written to ovsr_selected and the
\* profile select is refreshed.  An option that is not offered raises
\* ValueError and changes nothing.
SeSelectServer(p, v) ==
    /\ se_pair[p].srv_added
    /\ v \in se_pair[p].srv_values
    /\ \E ok \in BOOLEAN :
          se_pair' = [se_pair EXCEPT ![p] =
                         ProfileRefresh([se_pair[p] EXCEPT !.srv_cur = v, !.server_id = v],
                                        se_entry[p], ok)]
    /\ se_last' = [op |-> "select_server", pair |-> p]
    /\ UNCHANGED <<lc_data, lc_handler, lc_setups, lc_call, se_entry>>
    /\ UNCHANGED <<reqVars, matchVars, arrVars, ovVars, svcVars, pureVars>>

\* MovieProfileSelect.async_select_option with the option of value v.
SeSelectProfile(p, v) ==
    /\ se_pair[p].prof_added
    /\ v \in se_pair[p].prof_values
    /\ se_pair' = [se_pair EXCEPT ![p].prof_cur = v, ![p].profile_id = v]
    /\ se_last' = [op |-> "select_profile", pair |-> p]
    /\ UNCHANGED <<lc_data, lc_handler, lc_setups, lc_call, se_entry>>
    /\ UNCHANGED <<reqVars, matchVars, arrVars, ovVars, svcVars, pureVars>>

SelNext ==
    \E p \in {"movie", "tv"} :
        \/ SeServerAdded(p)
        \/ SeProfileAdded(p)
        \/ \E v \in {None, 1, 2} : SeSelectServer(p, v)
        \/ \E v \in {None, 1, 2, 3} : SeSelectProfile(p, v)

\* C28: once a server change has completed, the pair's selected profile id
\* is None or the id of a profile offered by the server now selected.
C28_ProfileOfferedByServer ==
    se_last.op = "select_server" =>
        LET r == se_pair[se_last.pair]
        IN r.profile_id = None \/ r.profile_id \in ProfilesOf(r.server_id)

(***************************************************************************)
(* Specifications                                                          *)
(***************************************************************************)

RequestInit ==
    RequestIdle /\ MatchIdle /\ ArrIdle /\ OvIdle /\ SvcIdle /\ PureIdle /\ HassIdle

SpecRequest == RequestInit /\ [][RequestNext]_vars

\* The inputs of one application of _best_match.
MatchInit ==
    /\ bm_results \in SeqsUpTo(Candidates, MaxCands)
    /\ bm_kind \in Kinds
    /\ bm_done = FALSE
    /\ bm_out = <<>>
    /\ RequestIdle /\ ArrIdle /\ OvIdle /\ SvcIdle /\ PureIdle /\ HassIdle

SpecMatch == MatchInit /\ [][MatchNext]_vars

ArrInit ==
    ArrIdle /\ RequestIdle /\ MatchIdle /\ OvIdle /\ SvcIdle /\ PureIdle /\ HassIdle

SpecArr == ArrInit /\ [][ArrNext]_vars

\* The module is loaded (empty _RECENT_REQUESTS); the Overseerr URL and API
\* key are configured or not.
OvInit ==
    /\ now = 0
    /\ RECENT_REQUESTS = [k \in RequestKeys |-> None]
    /\ ov_configured \in BOOLEAN
    /\ ov_calls = <<>>
    /\ ov_last = [outcome |-> "", gets |-> 0, posts |-> 0]
    /\ RequestIdle /\ MatchIdle /\ ArrIdle /\ SvcIdle /\ PureIdle /\ HassIdle

SpecLegacy == OvInit /\ [][OvNext]_vars

\* async_setup_entry has bound the handler to one entry's backend and store.
SvcInit ==
    /\ \E su \in SetupSet :
          /\ sv_backend = su.backend
          /\ sv_entry = su.entry
          /\ sv_store = su.store
    /\ sv_pc = "idle"
    /\ sv_data = PlainCall
    /\ sv_loc = NoLoc
    /\ sv_out = NoOut
    /\ sv_http = <<>>
    /\ sv_events = <<>>
    /\ sv_raised = ""
    /\ sv_now = 0
    /\ sv_subs = <<>>
    /\ sv_count = 0
    /\ RequestIdle /\ MatchIdle /\ ArrIdle /\ OvIdle /\ PureIdle /\ HassIdle

SpecSvc == SvcInit /\ [][SvcNext]_vars

\* One seasons argument, not yet parsed.
PureInit ==
    /\ ps_in \in SeasonSources
    /\ ps_out = <<>>
    /\ sc_msg = [prefix |-> <<>>, scheme |-> <<>>, rest |-> <<>>,
                 suffix |-> <<>>, text |-> <<>>]
    /\ sc_out = <<>>
    /\ RequestIdle /\ MatchIdle /\ ArrIdle /\ OvIdle /\ SvcIdle /\ HassIdle

SpecPure == PureInit /\ [][PureNext]_vars

\* One error message, not yet scrubbed.
ScrubInit ==
    /\ sc_msg \in ScrubMessages
    /\ sc_out = <<>>
    /\ ps_in = [form |-> "text", xs |-> <<>>, text |-> <<>>]
    /\ ps_out = <<>>
    /\ RequestIdle /\ MatchIdle /\ ArrIdle /\ OvIdle /\ SvcIdle /\ HassIdle

SpecScrub == ScrubInit /\ [][ScrubNext]_vars

LifeInit ==
    /\ HassIdle
    /\ RequestIdle /\ MatchIdle /\ ArrIdle /\ OvIdle /\ SvcIdle /\ PureIdle

SpecLife == LifeInit /\ [][LifeNext]_vars

\* The entities are constructed; ovsr_selected is seeded by
\* async_setup_entry from what the entry saved.
SelInit ==
    /\ se_entry \in [{"movie", "tv"} ->
                       {[server |-> None, profile |-> None],
                        [server |-> 2, profile |-> None],
                        [server |-> 1, profile |-> 1],
                        [server |-> None, profile |-> 3]}]
    /\ se_pair = [p \in {"movie", "tv"} |->
                    [srv_added |-> FALSE, srv_cur |-> None, srv_values |-> {},
                     prof_added |-> FALSE, prof_cur |-> None, prof_values |-> {},
                     server_id |-> se_entry[p].server,
                     profile_id |-> se_entry[p].profile]]
    /\ se_last = [op |-> "none", pair |-> "movie"]
    /\ lc_data = [e \in {} |-> <<>>]
    /\ lc_handler = NoHandler
    /\ lc_setups = 0
    /\ lc_call = "none"
    /\ RequestIdle /\ MatchIdle /\ ArrIdle /\ OvIdle /\ SvcIdle /\ PureIdle

SpecSel == SelInit /\ [][SelNext]_vars

====
